---- MODULE Spec2Model ----
(***************************************************************************)
(* A model of the path-reconciliation core of the mobile extraction        *)
(* comparison tool: the filesystem alias index (filesystem_loader.py),     *)
(* the tar path grammar (android_backup_parser.py) and the three mappers   *)
(* (android_path_mapper.py, path_mapper.py, filesystem_mapper.py).         *)
(*                                                                         *)
(* Strings are sequences of atoms.  An atom is either one of the           *)
(* separator characters "/", "." and "-", or a word that contains none of  *)
(* them, so that startswith, split, strip and slicing act on atoms exactly *)
(* as the Python code acts on characters.                                  *)
(***************************************************************************)
EXTENDS Integers, Sequences, FiniteSets, TLC

VARIABLES
    platform,       \* FilesystemAcquisition.platform
    files,          \* FilesystemAcquisition.files (list of FilesystemFile)
    file_index,     \* FilesystemAcquisition._file_index (insertion-ordered dict)
    last_find,      \* argument and result of the last lookup call
    mapper,         \* which mapper class the behaviour is about
    backup_files,   \* backup.files
    containers,     \* the five typed bundle-id -> GUID mappings (iOS)
    mappings,       \* mapper.mappings
    statistics,     \* mapper.statistics
    apk_dir_cache,  \* AndroidPathMapper._apk_dir_cache
    calls,          \* number of map_all() calls made so far
    last_op,        \* name of the last operation performed
    last_map,       \* argument and result of the step, a _map_backup_file call
    member_name,    \* argument of parse_tar_path
    parsed,         \* results of parse_tar_path(m) and parse_tar_path("./" + m)
    entry,          \* a backup entry object of one of the entry classes
    entry_is_directory, \* the value its is_directory property returned
    archive,        \* an ALEX or Magnet ZIP: its primary tar and sdcard entries
    decoded_files,  \* the files list that the decoder's parse() built
    parser,         \* a decoder of an encrypted backup and what surrounds it
    password,       \* the local variable password of its parse()
    callback_calls, \* how often parse() has invoked password_callback
    tried,          \* the passwords that keys were derived from, in order
    payload_decrypted,  \* whether the backup payload has been decrypted
    outcome,        \* how parse() ended: "returned" or the error raised
    returned_backup,    \* the backup object that parse() returned
    parsing_log,    \* a ParsingLog object
    log_calls,      \* number of calls made on it so far
    container_sources,  \* metadata plists and applicationState.db rows of a listing
    loaded_mappings,    \* the container mappings FilesystemLoader.load() filled
    master_key,     \* a master key and the format_version of its backup
    converted_key,  \* the key bytes the checksum is computed from
    path_arg,        \* argument of extract_domain_from_path, with the platform
    extracted       \* what extract_domain_from_path did with it

vars == <<platform, files, file_index, last_find, mapper, backup_files,
          containers, mappings, statistics, apk_dir_cache, calls, last_op,
          last_map, member_name, parsed, entry, entry_is_directory, archive,
          decoded_files, parser, password, callback_calls, tried,
          payload_decrypted, outcome, returned_backup, parsing_log, log_calls,
          container_sources, loaded_mappings, master_key, converted_key,
          path_arg, extracted>>

acquisition_vars == <<platform, files, file_index, last_find>>
mapper_vars == <<mapper, backup_files, containers, mappings, statistics,
                 apk_dir_cache, calls, last_map>>
tar_vars == <<member_name, parsed>>
entry_vars == <<entry, entry_is_directory>>
archive_vars == <<archive, decoded_files>>
decode_vars == <<parser, password, callback_calls, tried, payload_decrypted,
                 outcome, returned_backup>>
log_vars == <<parsing_log, log_calls>>
loader_vars == <<container_sources, loaded_mappings>>
key_vars == <<master_key, converted_key>>
extract_vars == <<path_arg, extracted>>
aux_vars == <<log_vars, loader_vars, key_vars, extract_vars>>
parser_vars == <<tar_vars, entry_vars, archive_vars, decode_vars, aux_vars>>

(***************************************************************************)
(* Bounds of the model.                                                    *)
(***************************************************************************)
MaxFsFiles == 2         \* longest filesystem listing
MaxBackupFiles == 2     \* longest backup listing
MaxCalls == 2           \* map_all() calls per mapper
MaxNameLen == 5         \* atoms in a tar member name
MaxPrimary == 2         \* members of the primary tar of an archive
MaxSecondary == 2       \* sdcard entries of an archive
MaxLogCalls == 3        \* calls made on one ParsingLog
MaxPlists == 2          \* container metadata plists of a listing
MaxRows == 2            \* rows of applicationState.db
MaxKeyLen == 3          \* bytes of a master key
MaxSegments == 2        \* free segments at the end of a path

(***************************************************************************)
(* Python values.                                                          *)
(***************************************************************************)
\* None where a string is expected: a one-atom sequence no string equals.
None == <<"<None>">>
\* None where a FilesystemFile is expected; files are named by their
\* position in the listing, which is their object identity.
NoFile == 0

SLASH == "/"
DOT == "."
HYPHEN == "-"

\* All sequences over S of length at most n.
SeqUpTo(S, n) == UNION {[1..k -> S] : k \in 0..n}

\* s.startswith(prefix)
StartsWith(s, prefix) ==
    /\ Len(prefix) <= Len(s)
    /\ SubSeq(s, 1, Len(prefix)) = prefix

\* s[n:]
Drop(s, n) == SubSeq(s, n + 1, Len(s))

\* position of the first atom c in s, 0 when there is none
RECURSIVE IndexFrom(_, _, _)
IndexFrom(s, c, i) ==
    IF i > Len(s) THEN 0
    ELSE IF s[i] = c THEN i
    ELSE IndexFrom(s, c, i + 1)

IndexOf(s, c) == IndexFrom(s, c, 1)

\* c in s
Contains(s, c) == IndexOf(s, c) # 0

\* s.split(c, 1): <<head>> or <<head, tail>>
Split1(s, c) ==
    LET i == IndexOf(s, c)
    IN  IF i = 0 THEN <<s>>
        ELSE <<SubSeq(s, 1, i - 1), Drop(s, i)>>

\* s.split(c): the list of the parts between the separators
RECURSIVE Split(_, _)
Split(s, c) ==
    LET i == IndexOf(s, c)
    IN  IF i = 0 THEN <<s>>
        ELSE <<SubSeq(s, 1, i - 1)>> \o Split(Drop(s, i), c)

\* c.join(parts)
RECURSIVE Join(_, _)
Join(parts, c) ==
    IF parts = <<>> THEN <<>>
    ELSE IF Len(parts) = 1 THEN parts[1]
    ELSE parts[1] \o <<c>> \o Join(Tail(parts), c)

\* s.lstrip(chars), s.rstrip(chars), s.strip(chars)
RECURSIVE LStrip(_, _)
LStrip(s, chars) ==
    IF s # <<>> /\ s[1] \in chars THEN LStrip(Tail(s), chars) ELSE s

RECURSIVE RStrip(_, _)
RStrip(s, chars) ==
    IF s # <<>> /\ s[Len(s)] \in chars
    THEN RStrip(SubSeq(s, 1, Len(s) - 1), chars)
    ELSE s

Strip(s, chars) == RStrip(LStrip(s, chars), chars)

(***************************************************************************)
(* filesystem_loader.py: FilesystemFile and FilesystemAcquisition.         *)
(***************************************************************************)
P_DATA_DATA == <<"/", "data", "/", "data", "/">>
P_DATA_USER_0 == <<"/", "data", "/", "user", "/", "0", "/">>
P_DATA_MEDIA_0 == <<"/", "data", "/", "media", "/", "0", "/">>
P_STORAGE_EMULATED_0 == <<"/", "storage", "/", "emulated", "/", "0", "/">>
P_SDCARD == <<"/", "sdcard", "/">>
P_PRIVATE == <<"/", "private", "/">>

\* FilesystemFile.normalized_path
normalized_path(f) ==
    IF f.platform = "android"
    THEN LET p1 == IF StartsWith(f.path, <<".", "/">>) THEN Drop(f.path, 1)
                   ELSE f.path
         IN  IF ~StartsWith(p1, <<"/">>) THEN <<"/">> \o p1 ELSE p1
    ELSE IF StartsWith(f.path, P_PRIVATE) THEN f.path
    ELSE IF StartsWith(f.path, <<".">> \o P_PRIVATE) THEN Drop(f.path, 1)
    ELSE IF StartsWith(f.path, <<"private", "/">>) THEN <<"/">> \o f.path
    ELSE IF StartsWith(f.path, <<".", "/">>)
         THEN <<"/", "private">> \o Drop(f.path, 1)
    ELSE IF ~StartsWith(f.path, <<"/">>) THEN P_PRIVATE \o f.path
    ELSE f.path

\* A Python dict keeps insertion order: a sequence of [key, file] items.
DictKeys(d) == {d[i].key : i \in 1..Len(d)}

\* d.get(k)
DictGet(d, k) ==
    IF k \in DictKeys(d)
    THEN d[CHOOSE i \in 1..Len(d) : d[i].key = k].file
    ELSE NoFile

\* d[k] = v: an existing key keeps its place, a new key goes last
DictSet(d, k, v) ==
    IF k \in DictKeys(d)
    THEN [i \in 1..Len(d) |-> IF d[i].key = k THEN [key |-> k, file |-> v]
                              ELSE d[i]]
    ELSE Append(d, [key |-> k, file |-> v])

\* The pair indexed one way only: the elif for /data/user/0 is missing.
IndexDataAlias_OneWay(d, np, i) ==
    IF StartsWith(np, P_DATA_DATA)
    THEN DictSet(d, P_DATA_USER_0 \o Drop(np, Len(P_DATA_DATA)), i)
    ELSE d

\* The body of build_index's loop for the i-th file, android branch with
\* the /data/data <-> /data/user/0 pair (an if / elif).
IndexDataAlias(d, np, i) ==
    IF StartsWith(np, P_DATA_DATA)
    THEN DictSet(d, P_DATA_USER_0 \o Drop(np, Len(P_DATA_DATA)), i)
    ELSE IF StartsWith(np, P_DATA_USER_0)
    THEN DictSet(d, P_DATA_DATA \o Drop(np, Len(P_DATA_USER_0)), i)
    ELSE d

\* ... and with the media / storage / sdcard triple (an if / elif / elif).
IndexSharedAlias(d, np, i) ==
    IF StartsWith(np, P_DATA_MEDIA_0)
    THEN LET rest == Drop(np, Len(P_DATA_MEDIA_0))
         IN  DictSet(DictSet(d, P_STORAGE_EMULATED_0 \o rest, i),
                     P_SDCARD \o rest, i)
    ELSE IF StartsWith(np, P_STORAGE_EMULATED_0)
    THEN LET rest == Drop(np, Len(P_STORAGE_EMULATED_0))
         IN  DictSet(DictSet(d, P_DATA_MEDIA_0 \o rest, i),
                     P_SDCARD \o rest, i)
    ELSE IF StartsWith(np, P_SDCARD)
    THEN LET rest == Drop(np, Len(P_SDCARD))
         IN  DictSet(DictSet(d, P_STORAGE_EMULATED_0 \o rest, i),
                     P_DATA_MEDIA_0 \o rest, i)
    ELSE d

\* One iteration of build_index: index the i-th file of fs.
IndexOne(d, fs, plat, i) ==
    LET np == normalized_path(fs[i])
        d1 == DictSet(d, np, i)
    IN  IF plat = "ios"
        THEN IF StartsWith(np, P_PRIVATE)
             THEN DictSet(d1, Drop(np, 2), i)     \* np[8:], '/private' removed
             ELSE d1
        ELSE IF plat = "android"
        THEN IndexSharedAlias(IndexDataAlias(d1, np, i), np, i)
        ELSE d1

RECURSIVE IndexUpTo(_, _, _)
IndexUpTo(fs, plat, n) ==
    IF n = 0 THEN <<>>
    ELSE IndexOne(IndexUpTo(fs, plat, n - 1), fs, plat, n)

\* FilesystemAcquisition.build_index: the new value of _file_index
build_index(fs, plat) == IndexUpTo(fs, plat, Len(fs))

\* The lazy build left out: a lookup that takes the index as it is.
EnsureIndex_Never(d, fs, plat) == d

\* find_file and find_files_in_directory start by building an empty index
EnsureIndex(d, fs, plat) == IF d = <<>> THEN build_index(fs, plat) ELSE d

\* A lookup that falls back on the first key that begins with path.
find_file_in_by_prefix(d, plat, path) ==
    IF path \in DictKeys(d) THEN DictGet(d, path)
    ELSE IF \E i \in 1..Len(d) : StartsWith(d[i].key, path)
    THEN d[CHOOSE i \in 1..Len(d) :
               /\ StartsWith(d[i].key, path)
               /\ \A j \in 1..(i - 1) : ~StartsWith(d[j].key, path)].file
    ELSE NoFile

\* FilesystemAcquisition.find_file on an index that is built: the result
find_file_in(d, plat, path) ==
    IF path \in DictKeys(d) THEN DictGet(d, path)
    ELSE IF plat = "ios"
    THEN LET normalized ==
                 IF StartsWith(path, P_PRIVATE) THEN path
                 ELSE IF StartsWith(path, <<"/">>)
                      THEN <<"/", "private">> \o path
                 ELSE P_PRIVATE \o path
         IN  DictGet(d, normalized)
    ELSE IF ~StartsWith(path, <<"/">>) THEN DictGet(d, <<"/">> \o path)
    ELSE NoFile

\* FilesystemAcquisition.find_file: the result, after the lazy build
find_file(d, fs, plat, path) == find_file_in(EnsureIndex(d, fs, plat), plat, path)

\* dir_path with a '/' at its end
WithTrailingSlash(dir_path) ==
    IF dir_path # <<>> /\ dir_path[Len(dir_path)] = "/" THEN dir_path
    ELSE dir_path \o <<"/">>

\* The loop of find_files_in_directory over the first n items of the index.
RECURSIVE FilesUnder(_, _, _)
FilesUnder(d, prefix, n) ==
    IF n = 0 THEN <<>>
    ELSE IF StartsWith(d[n].key, prefix)
    THEN Append(FilesUnder(d, prefix, n - 1), d[n].file)
    ELSE FilesUnder(d, prefix, n - 1)

\* FilesystemAcquisition.find_files_in_directory on an index that is built
find_files_in(d, dir_path) == FilesUnder(d, WithTrailingSlash(dir_path), Len(d))

\* FilesystemAcquisition.find_files_in_directory: the result, after the
\* lazy build
find_files_in_directory(d, fs, plat, dir_path) ==
    find_files_in(EnsureIndex(d, fs, plat), dir_path)

(***************************************************************************)
(* State after construction, shared by every specification.               *)
(***************************************************************************)
\* An absolute path from its segments, and the same without the leading '/'
Rel(segs) == Join([i \in 1..Len(segs) |-> <<segs[i]>>], "/")
Abs(segs) == <<"/">> \o Rel(segs)

\* FilesystemFile(path, size, is_directory, platform=plat)
FilesystemFile(path, isdir, plat) ==
    [path |-> path, is_directory |-> isdir, platform |-> plat]

\* MappingStatistics(): every counter 0.  The coverage percentage is the
\* exact fraction num / den.
MappingStatistics ==
    [total_backup_files |-> 0, total_backup_directories |-> 0,
     total_filesystem_files |-> 0, total_filesystem_directories |-> 0,
     mapped_files |-> 0, not_found_files |-> 0, unmappable_files |-> 0,
     backup_only_files |-> 0, filesystem_only_files |-> 0,
     backup_coverage_percent |-> [num |-> 0, den |-> 1],
     manifest_db_row_count |-> 0]

\* The five typed mappings of a FilesystemAcquisition, all empty.
NoContainers ==
    [app |-> <<>>, group |-> <<>>, plugin |-> <<>>, system |-> <<>>,
     system_group |-> <<>>]

NoFind == [path |-> None, result |-> NoFile, results |-> <<>>]
NoMap == [file |-> 0, path |-> None, notes |-> <<>>]
NoParse == [plain |-> <<>>, dotted |-> <<>>]

\* No mapper object: the acquisition or the grammar is used on its own.
InitNoMapper ==
    /\ mapper = "none"
    /\ backup_files = <<>>
    /\ containers = NoContainers
    /\ mappings = <<>>
    /\ statistics = MappingStatistics
    /\ apk_dir_cache = <<>>
    /\ calls = 0
    /\ last_map = NoMap

InitNoTar ==
    /\ member_name = <<>>
    /\ parsed = NoParse

\* No entry object whose is_directory property is read on its own.
NoEntry ==
    [kind |-> "none", file_id |-> <<>>, file_size |-> 0, mode |-> 0,
     flags |-> 0]

InitNoEntry ==
    /\ entry = NoEntry
    /\ entry_is_directory = FALSE

\* No ALEX or Magnet archive is being decoded.
NoArchive ==
    [kind |-> "none", primary |-> <<>>, namelist |-> <<>>, sdcard_tar |-> <<>>]

InitNoArchive ==
    /\ archive = NoArchive
    /\ decoded_files = <<>>

\* password_callback=None
NoCallback == [given |-> FALSE, result |-> None]

\* No backup object.
NoBackup == [kind |-> "none", is_encrypted |-> FALSE]

\* No encrypted backup is being decoded.
NoParser ==
    [kind |-> "none", password |-> None, password_files |-> <<>>,
     callback |-> NoCallback, garbage |-> "none"]

\* The locals and results of a parse() that has not started.
InitParseLocals ==
    /\ password = None
    /\ callback_calls = 0
    /\ tried = <<>>
    /\ payload_decrypted = FALSE
    /\ outcome = "running"
    /\ returned_backup = NoBackup

InitNoDecode ==
    /\ parser = NoParser
    /\ InitParseLocals

\* ParsingLog(): no entries, every counter 0.
EmptyLog ==
    [entries |-> <<>>, entry_by_file_id |-> <<>>, files_added |-> 0,
     directories_added |-> 0, skipped_no_content |-> 0, errors |-> 0,
     size_mismatches |-> 0, manifest_size_zero |-> 0]

InitNoLog ==
    /\ parsing_log = EmptyLog
    /\ log_calls = 0

InitNoLoader ==
    /\ container_sources = [platform |-> "none", plists |-> <<>>, rows |-> <<>>]
    /\ loaded_mappings = <<>>

InitNoKey ==
    /\ master_key = <<>>
    /\ converted_key = <<>>

InitNoExtract ==
    /\ path_arg = <<>>
    /\ extracted = <<>>

InitNoAux == InitNoLog /\ InitNoLoader /\ InitNoKey /\ InitNoExtract

\* None of the parser-side operations is in use.
InitNoParser ==
    InitNoTar /\ InitNoEntry /\ InitNoArchive /\ InitNoDecode /\ InitNoAux

(***************************************************************************)
(* SpecIndex: a FilesystemAcquisition on its own (build_index, find_file). *)
(***************************************************************************)
\* Stored paths of android listings: every alias spelling of two locations,
\* the './' and bare spellings, an APK directory and an unaliased path.
AndroidIndexPaths ==
    { Abs(<<"data", "data", "pkgA", "f">>),
      Abs(<<"data", "user", "0", "pkgA", "f">>),
      Rel(<<"data", "data", "pkgA", "f">>),
      <<".">> \o Abs(<<"data", "user", "0", "pkgA", "f">>),
      Abs(<<"data", "media", "0", "pic">>),
      Abs(<<"storage", "emulated", "0", "pic">>),
      Abs(<<"sdcard", "pic">>),
      Abs(<<"data", "data", "pkgA">>),
      Abs(<<"data", "extra">>) }

IosIndexPaths ==
    { Abs(<<"private", "var", "mobile", "f">>),
      <<".">> \o Abs(<<"private", "var", "mobile", "f">>),
      Rel(<<"private", "var", "mobile", "f">>),
      Abs(<<"var", "mobile", "f">>),
      <<".">> \o Abs(<<"var", "mobile", "f">>),
      Rel(<<"var", "mobile", "f">>) }

IndexPaths(plat) == IF plat = "android" THEN AndroidIndexPaths ELSE IosIndexPaths

\* Paths find_file is asked for: the stored spellings, their normalized
\* forms, and a directory prefix of stored paths.
FindPaths ==
    AndroidIndexPaths \cup IosIndexPaths \cup
    { Abs(<<"data", "data">>), Abs(<<"private", "var", "mobile">>),
      Abs(<<"data", "user", "0", "pkgA">>), Abs(<<"nonexistent">>) }

InitIndex ==
    /\ platform \in {"android", "ios"}
    /\ \E paths \in SeqUpTo(IndexPaths(platform), MaxFsFiles) :
           files = [i \in 1..Len(paths) |->
                        FilesystemFile(paths[i], FALSE, platform)]
    /\ file_index = <<>>
    /\ last_find = NoFind
    /\ last_op = "init"
    /\ InitNoMapper
    /\ InitNoParser

\* acquisition.build_index()
BuildIndex ==
    /\ file_index' = build_index(files, platform)
    /\ last_op' = "build_index"
    /\ last_map' = NoMap
    /\ UNCHANGED <<platform, files, last_find, mapper, backup_files, containers,
                   mappings, statistics, apk_dir_cache, calls, parser_vars>>

\* acquisition.find_file(path)
FindFile(path) ==
    /\ file_index' = EnsureIndex(file_index, files, platform)
    /\ last_find' = [path |-> path,
                     result |-> find_file(file_index, files, platform, path),
                     results |-> <<>>]
    /\ last_op' = "find_file"
    /\ UNCHANGED <<platform, files, mapper_vars, parser_vars>>

\* acquisition.find_files_in_directory(dir_path)
FindFilesInDirectory(dir_path) ==
    /\ file_index' = EnsureIndex(file_index, files, platform)
    /\ last_find' = [path |-> dir_path,
                     result |-> NoFile,
                     results |-> find_files_in_directory(file_index, files,
                                                         platform, dir_path)]
    /\ last_op' = "find_files_in_directory"
    /\ UNCHANGED <<platform, files, mapper_vars, parser_vars>>

NextIndex ==
    \/ BuildIndex
    \/ \E path \in FindPaths : FindFile(path)
    \/ \E dir_path \in FindPaths : FindFilesInDirectory(dir_path)

SpecIndex == InitIndex /\ [][NextIndex]_vars

(***************************************************************************)
(* android_backup_parser.py: the tar path grammar.                         *)
(***************************************************************************)
\* Tokens are strings like any other: sequences of atoms.
UNMAPPABLE_TOKENS == {<<"_manifest">>, <<"k">>}

TEMPLATE_TOKENS ==
    {<<"a">>, <<"r">>, <<"f">>, <<"db">>, <<"sp">>, <<"c">>, <<"nb">>,
     <<"ef">>, <<"obb">>, <<"d_r">>, <<"d_f">>, <<"d_db">>, <<"d_sp">>,
     <<"d_c">>, <<"d_nb">>}

KNOWN_TOKENS == TEMPLATE_TOKENS \cup UNMAPPABLE_TOKENS

TarResult(domain, token, relative_path) ==
    [domain |-> domain, token |-> token, relative_path |-> relative_path]

\* The grammar with only one leading './' or '/' removed from the name.
parse_tar_path_prefix_only(name) ==
    LET stripped == IF StartsWith(name, <<".", "/">>) THEN Drop(name, 2)
                    ELSE IF StartsWith(name, <<"/">>) THEN Drop(name, 1)
                    ELSE name
        parts == Split(stripped, "/")
    IN  IF parts[1] = <<"apps">> /\ Len(parts) >= 2
        THEN IF Len(parts) >= 3
             THEN TarResult(parts[2], parts[3], Join(Drop(parts, 2), "/"))
             ELSE TarResult(parts[2], <<>>, <<>>)
        ELSE IF parts[1] = <<"shared">> /\ Len(parts) >= 2
        THEN TarResult(<<"shared", "/">> \o parts[2], <<>>,
                       IF Len(parts) > 2 THEN Join(Drop(parts, 2), "/")
                       ELSE <<>>)
        ELSE TarResult(parts[1], <<>>,
                       IF Len(parts) > 1 THEN Join(Drop(parts, 1), "/")
                       ELSE <<>>)

\* AndroidBackupParser._parse_tar_path
parse_tar_path(name) ==
    LET parts == Split(Strip(name, {".", "/"}), "/")
    IN  IF parts[1] = <<"apps">> /\ Len(parts) >= 2
        THEN IF Len(parts) >= 3
             THEN IF parts[3] \in KNOWN_TOKENS
                  THEN TarResult(parts[2], parts[3], Join(Drop(parts, 2), "/"))
                  ELSE TarResult(parts[2], parts[3], Join(Drop(parts, 2), "/"))
             ELSE TarResult(parts[2], <<>>, <<>>)
        ELSE IF parts[1] = <<"shared">> /\ Len(parts) >= 2
        THEN TarResult(<<"shared", "/">> \o parts[2], <<>>,
                       IF Len(parts) > 2 THEN Join(Drop(parts, 2), "/")
                       ELSE <<>>)
        ELSE TarResult(parts[1], <<>>,
                       IF Len(parts) > 1 THEN Join(Drop(parts, 1), "/")
                       ELSE <<>>)

(***************************************************************************)
(* SpecTar: parse_tar_path applied to bounded member names.                *)
(***************************************************************************)
TarAtoms == {".", "/", "apps", "shared", "pkgA", "db", "x"}

InitNoAcquisition ==
    /\ platform = "android"
    /\ files = <<>>
    /\ file_index = <<>>
    /\ last_find = NoFind

\* A member name is free, or the head of an application entry followed by a
\* free tail.
TarHeads == {<<>>, <<"apps", "/", "pkgA", "/">>}

TarNames == {h \o t : h \in TarHeads, t \in SeqUpTo(TarAtoms, MaxNameLen)}

InitTar ==
    /\ member_name \in TarNames
    /\ parsed = NoParse
    /\ last_op = "init"
    /\ InitNoAcquisition
    /\ InitNoMapper
    /\ InitNoEntry
    /\ InitNoArchive
    /\ InitNoDecode
    /\ InitNoAux

\* parse_tar_path(m) and parse_tar_path('./' + m)
ParseTarPath ==
    /\ parsed = NoParse
    /\ parsed' = [plain |-> parse_tar_path(member_name),
                  dotted |-> parse_tar_path(<<".", "/">> \o member_name)]
    /\ last_op' = "parse_tar_path"
    /\ UNCHANGED <<member_name, acquisition_vars, mapper_vars, entry_vars,
                   archive_vars, decode_vars, aux_vars>>

NextTar == ParseTarPath

SpecTar == InitTar /\ [][NextTar]_vars

(***************************************************************************)
(* Backup entries: AndroidBackupFile (android_backup_parser.py),           *)
(* BackupFile (ios_backup_parser.py), FilesystemAsBackupFile               *)
(* (filesystem_mapper.py).                                                 *)
(***************************************************************************)
S_IFMT == 61440         \* 0o170000
S_IFDIR == 16384        \* 0o040000
MODE_FILE == 33188      \* 0o100644
MODE_DIR == 16877       \* 0o40755

\* mode & 0o170000, for a mode >= 0
FileTypeBits(mode) == ((mode \div 4096) % 16) * 4096

AndroidBackupFile(domain, token, relative_path, mode, flags) ==
    [domain |-> domain, token |-> token, relative_path |-> relative_path,
     mode |-> mode, flags |-> flags]

BackupFile(file_id, domain, relative_path, file_size, mode, flags) ==
    [file_id |-> file_id, domain |-> domain, relative_path |-> relative_path,
     file_size |-> file_size, mode |-> mode, flags |-> flags]

FilesystemAsBackupFile(fs_file) ==
    [fs_file |-> fs_file,
     mode |-> IF fs_file.is_directory THEN MODE_DIR ELSE MODE_FILE,
     flags |-> IF fs_file.is_directory THEN 2 ELSE 1]

\* The is_directory property of the three entry classes.
is_directory(kind, bf) ==
    IF kind = "android" THEN FileTypeBits(bf.mode) = S_IFDIR
    ELSE IF kind = "ios"
    THEN \/ FileTypeBits(bf.mode) = S_IFDIR
         \/ bf.flags = 2
         \/ (bf.mode = 0 /\ bf.file_size = 0 /\ bf.file_id = <<>>)
    ELSE bf.fs_file.is_directory

(***************************************************************************)
(* SpecDir: the is_directory property read on one entry object.            *)
(***************************************************************************)
\* Modes with and without file-type bits: 0, 0o771, 0o100644, 0o040755,
\* 0o040771 and 0o120777.
EntryModes == {0, 505, 33188, 16877, 16889, 41471}

\* An AndroidBackupFile or an iOS BackupFile with any combination of the
\* fields is_directory reads.
InitDir ==
    /\ entry \in [kind : {"android", "ios"}, file_id : {<<>>, <<"id">>},
                   file_size : {0, 1}, mode : EntryModes, flags : {0, 1, 2}]
    /\ entry_is_directory = FALSE
    /\ last_op = "init"
    /\ InitNoAcquisition
    /\ InitNoMapper
    /\ InitNoTar
    /\ InitNoArchive
    /\ InitNoDecode
    /\ InitNoAux

\* entry.is_directory
IsDirectory ==
    /\ last_op = "init"
    /\ entry_is_directory' = is_directory(entry.kind, entry)
    /\ last_op' = "is_directory"
    /\ UNCHANGED <<entry, acquisition_vars, mapper_vars, tar_vars,
                   archive_vars, decode_vars, aux_vars>>

NextDir == IsDirectory

SpecDir == InitDir /\ [][NextDir]_vars

(***************************************************************************)
(* alex_parser.py and magnet_parser.py: the files list of a ZIP archive,   *)
(* built from its primary tar and then from its sdcard entries.            *)
(***************************************************************************)
SHARED_DOMAIN == <<"shared", "/", "0">>
LIVE_DATA_DOMAIN == <<"Live Data">>
BACKUP_SDCARD_PREFIX == <<"backup", "/", "sdcard", "/">>
SDCARD_PREFIX == <<"sdcard", "/">>
LIVE_DATA_PREFIX == <<"Live Data", "/">>

\* AndroidBackupFile.full_domain_path
full_domain_path(bf) ==
    IF bf.relative_path # <<>>
    THEN bf.domain \o <<"/">> \o bf.relative_path
    ELSE bf.domain

\* The test on seen_domain_paths that never finds a path.
AlreadySeen_Never(seen, domain_path) == FALSE

\* domain_path in seen_domain_paths
AlreadySeen(seen, domain_path) == domain_path \in seen

\* mode of an entry built from a tar member
MemberMode(member) ==
    IF member.type = "dir" /\ FileTypeBits(member.mode) = 0
    THEN member.mode + S_IFDIR
    ELSE member.mode

\* The AndroidBackupFile built from a tar member.
TarEntry(file_id, domain, token, relative_path, member) ==
    [file_id |-> file_id, domain |-> domain, token |-> token,
     relative_path |-> relative_path, mode |-> MemberMode(member),
     flags |-> IF member.type = "dir" THEN 2 ELSE 1]

\* The AndroidBackupFile built from a ZIP entry name.
ZipEntry(name, domain, rel) ==
    [file_id |-> <<"zip:">> \o name, domain |-> domain, token |-> <<>>,
     relative_path |-> RStrip(rel, {"/"}),
     mode |-> IF name[Len(name)] = "/" THEN MODE_DIR ELSE MODE_FILE,
     flags |-> IF name[Len(name)] = "/" THEN 2 ELSE 1]

\* files.append(bf); seen_domain_paths.add(...)
AddEntry(acc, bf, domain_path) ==
    [files |-> Append(acc.files, bf),
     seen |-> acc.seen \cup {domain_path}]

\* files.append(bf) of a primary tar member
AddPrimary(acc, bf) == AddEntry(acc, bf, full_domain_path(bf))

PrimaryEntry(member, p) ==
    TarEntry(member.name, p.domain, p.token, p.relative_path, member)

\* One iteration of the loop over the primary tar (backup.ab of ALEX,
\* adb-data.tar of Magnet).
PrimaryStep(kind, acc, member) ==
    IF kind = "alex" /\ member.type \notin {"dir", "file"}
    THEN acc
    ELSE AddPrimary(acc, PrimaryEntry(member, parse_tar_path(member.name)))

RECURSIVE PrimaryUpTo(_, _, _)
PrimaryUpTo(kind, members, n) ==
    IF n = 0 THEN [files |-> <<>>, seen |-> {}]
    ELSE PrimaryStep(kind, PrimaryUpTo(kind, members, n - 1), members[n])

IsBackupSdcardEntry(n) ==
    StartsWith(n, BACKUP_SDCARD_PREFIX) /\ n # BACKUP_SDCARD_PREFIX

IsSdcardEntry(n) == StartsWith(n, SDCARD_PREFIX) /\ n # SDCARD_PREFIX

\* backup_sdcard_entries + sdcard_entries
AlexSdcardNames(namelist) ==
    SelectSeq(namelist, IsBackupSdcardEntry) \o SelectSeq(namelist, IsSdcardEntry)

\* rel of a ZIP entry name of ALEX
AlexRel(name) ==
    IF StartsWith(name, BACKUP_SDCARD_PREFIX)
    THEN Drop(name, Len(BACKUP_SDCARD_PREFIX))
    ELSE Drop(name, Len(SDCARD_PREFIX))

\* domain_path of a ZIP entry of ALEX
AlexDomainPath(rel) ==
    IF RStrip(rel, {"/"}) # <<>>
    THEN SHARED_DOMAIN \o <<"/">> \o RStrip(rel, {"/"})
    ELSE SHARED_DOMAIN

AlexAdd(acc, name, rel, domain_path) ==
    IF rel = <<>> THEN acc
    ELSE IF AlreadySeen(acc.seen, domain_path) THEN acc
    ELSE AddEntry(acc, ZipEntry(name, SHARED_DOMAIN, rel), domain_path)

\* One iteration of the loop over the sdcard entries of an ALEX ZIP.
AlexSdcardStep(acc, name) ==
    AlexAdd(acc, name, AlexRel(name), AlexDomainPath(AlexRel(name)))

RECURSIVE AlexSdcardUpTo(_, _, _)
AlexSdcardUpTo(acc, names, n) ==
    IF n = 0 THEN acc
    ELSE AlexSdcardStep(AlexSdcardUpTo(acc, names, n - 1), names[n])

\* rel of a member name of sdcard.tar.gz
MagnetRel(stripped) ==
    IF StartsWith(stripped, SDCARD_PREFIX) THEN Drop(stripped, Len(SDCARD_PREFIX))
    ELSE IF stripped = <<"sdcard">> THEN <<>>
    ELSE stripped

\* domain_path of a member of sdcard.tar.gz
MagnetDomainPath(rel) ==
    IF rel # <<>> THEN SHARED_DOMAIN \o <<"/">> \o rel ELSE SHARED_DOMAIN

MagnetAdd(acc, member, rel, domain_path) ==
    IF AlreadySeen(acc.seen, domain_path) THEN acc
    ELSE AddEntry(acc,
                  TarEntry(<<"sdcard_tar:">> \o member.name, SHARED_DOMAIN,
                           <<>>, rel, member),
                  domain_path)

\* One iteration of the loop over sdcard.tar.gz of a Magnet ZIP.
MagnetSdcardStep(acc, member) ==
    MagnetAdd(acc, member, MagnetRel(LStrip(member.name, {".", "/"})),
              MagnetDomainPath(MagnetRel(LStrip(member.name, {".", "/"}))))

RECURSIVE MagnetSdcardUpTo(_, _, _)
MagnetSdcardUpTo(acc, members, n) ==
    IF n = 0 THEN acc
    ELSE MagnetSdcardStep(MagnetSdcardUpTo(acc, members, n - 1), members[n])

IsLiveDataEntry(n) == StartsWith(n, LIVE_DATA_PREFIX)

\* One iteration of the loop over the Live Data entries of a Magnet ZIP.
LiveDataStep(out, name) ==
    IF Drop(name, Len(LIVE_DATA_PREFIX)) = <<>> THEN out
    ELSE Append(out, ZipEntry(name, LIVE_DATA_DOMAIN,
                                Drop(name, Len(LIVE_DATA_PREFIX))))

RECURSIVE LiveDataUpTo(_, _, _)
LiveDataUpTo(out, names, n) ==
    IF n = 0 THEN out
    ELSE LiveDataStep(LiveDataUpTo(out, names, n - 1), names[n])

\* The files of ALEXParser.parse
alex_files(a) ==
    AlexSdcardUpTo(PrimaryUpTo("alex", a.primary, Len(a.primary)),
                   AlexSdcardNames(a.namelist),
                   Len(AlexSdcardNames(a.namelist))).files

\* The files of MagnetQuickImageParser.parse
magnet_files(a) ==
    LiveDataUpTo(
        MagnetSdcardUpTo(PrimaryUpTo("magnet", a.primary, Len(a.primary)),
                         a.sdcard_tar, Len(a.sdcard_tar)).files,
        SelectSeq(a.namelist, IsLiveDataEntry),
        Len(SelectSeq(a.namelist, IsLiveDataEntry)))

\* The AndroidBackupFile AndroidBackupParser.parse builds from a tar
\* member: mode=member.mode, flags 2 for a directory and 1 for a file.
AbEntry(member, p) ==
    [file_id |-> member.name, domain |-> p.domain, token |-> p.token,
     relative_path |-> p.relative_path, mode |-> member.mode,
     flags |-> IF member.type = "dir" THEN 2 ELSE 1]

\* One iteration of the loop of AndroidBackupParser.parse over the tar
\* members: directories and regular files are appended, the rest skipped.
AbStep(out, member) ==
    IF member.type \notin {"dir", "file"} THEN out
    ELSE Append(out, AbEntry(member, parse_tar_path(member.name)))

RECURSIVE AbUpTo(_, _)
AbUpTo(members, n) ==
    IF n = 0 THEN <<>> ELSE AbStep(AbUpTo(members, n - 1), members[n])

\* The files of AndroidBackupParser.parse
ab_files(a) == AbUpTo(a.primary, Len(a.primary))

(***************************************************************************)
(* SpecArchive: one ALEX ZIP, Magnet ZIP or .ab file decoded once.         *)
(***************************************************************************)
\* Sequences without repetition: the values of a dict keyed by member name.
InjSeqUpTo(S, n) ==
    {q \in SeqUpTo(S, n) : \A i, j \in 1..Len(q) : q[i] = q[j] => i = j}

TarMember(name, type, mode) == [name |-> name, type |-> type, mode |-> mode]

\* Members of backup.ab or adb-data.tar: 0o644 files, 0o755 directories
\* and a symbolic link.
PrimaryMembers ==
    {TarMember(<<"shared", "/", "0", "/", "x">>, "file", 420),
     TarMember(<<"shared", "/", "0", "/", "y">>, "dir", 493),
     TarMember(<<"shared", "/", "0">>, "dir", 16877),
     TarMember(<<"apps", "/", "pkgA", "/", "db", "/", "x">>, "file", 420),
     TarMember(<<"shared", "/", "0", "/", "z">>, "symlink", 511)}

\* Entry names of an ALEX ZIP.
AlexZipNames ==
    {<<"backup", "/", "sdcard", "/", "x">>,
     <<"sdcard", "/", "x">>,
     <<"sdcard", "/", "x", "/">>,
     <<"sdcard", "/", "y", "/">>,
     <<"sdcard", "/", "w">>,
     <<"sdcard", "/">>,
     <<"backup.ab">>}

\* Members of sdcard.tar.gz of a Magnet ZIP.
MagnetSdcardMembers ==
    {TarMember(<<"sdcard", "/", "x">>, "file", 420),
     TarMember(<<".", "/", "sdcard", "/", "x">>, "file", 420),
     TarMember(<<"sdcard">>, "dir", 493),
     TarMember(<<"x">>, "file", 420),
     TarMember(<<"sdcard", "/", "w">>, "dir", 493)}

\* Entry names of a Magnet ZIP besides the two tars.
MagnetZipNames ==
    {<<"Live Data", "/", "x">>, <<"Live Data", "/">>, <<"adb-data.tar">>}

Archives ==
    {[kind |-> "alex", primary |-> p, namelist |-> n, sdcard_tar |-> <<>>] :
        p \in InjSeqUpTo(PrimaryMembers, MaxPrimary),
        n \in SeqUpTo(AlexZipNames, MaxSecondary)}
    \cup
    {[kind |-> "magnet", primary |-> p, namelist |-> <<n>>, sdcard_tar |-> t] :
        p \in InjSeqUpTo(PrimaryMembers, MaxPrimary),
        n \in MagnetZipNames,
        t \in InjSeqUpTo(MagnetSdcardMembers, MaxSecondary)}
    \cup
    {[kind |-> "ab", primary |-> p, namelist |-> <<>>, sdcard_tar |-> <<>>] :
        p \in InjSeqUpTo(PrimaryMembers, MaxPrimary)}

InitArchive ==
    /\ archive \in Archives
    /\ decoded_files = <<>>
    /\ last_op = "init"
    /\ InitNoAcquisition
    /\ InitNoMapper
    /\ InitNoTar
    /\ InitNoEntry
    /\ InitNoDecode
    /\ InitNoAux

\* ALEXParser.parse
ParseAlex ==
    /\ last_op = "init"
    /\ archive.kind = "alex"
    /\ decoded_files' = alex_files(archive)
    /\ last_op' = "parse_archive"
    /\ UNCHANGED <<archive, acquisition_vars, mapper_vars, tar_vars,
                   entry_vars, decode_vars, aux_vars>>

\* MagnetQuickImageParser.parse
ParseMagnet ==
    /\ last_op = "init"
    /\ archive.kind = "magnet"
    /\ decoded_files' = magnet_files(archive)
    /\ last_op' = "parse_archive"
    /\ UNCHANGED <<archive, acquisition_vars, mapper_vars, tar_vars,
                   entry_vars, decode_vars, aux_vars>>

\* AndroidBackupParser.parse of an unencrypted .ab file
ParseAb ==
    /\ last_op = "init"
    /\ archive.kind = "ab"
    /\ decoded_files' = ab_files(archive)
    /\ last_op' = "parse_archive"
    /\ UNCHANGED <<archive, acquisition_vars, mapper_vars, tar_vars,
                   entry_vars, decode_vars, aux_vars>>

NextArchive ==
    \/ ParseAlex
    \/ ParseMagnet
    \/ ParseAb

SpecArchive == InitArchive /\ [][NextArchive]_vars

(***************************************************************************)
(* Encrypted backups: how AndroidBackupParser.parse and                    *)
(* iOSBackupParser.parse obtain the password and use it.                   *)
(***************************************************************************)
\* A password.txt that does not exist, and one that cannot be read.
ABSENT == <<"<absent>">>
UNREADABLE == <<"<unreadable>">>

WHITESPACE == {" ", "\n"}

\* str.strip()
StripWs(text) == Strip(text, WHITESPACE)

\* The truth value of an Optional[str]
Truthy(pw) == pw \notin {None, <<>>}

\* AndroidBackupParser._read_password_file
read_password_file(f) == IF f = UNREADABLE THEN None ELSE StripWs(f)

\* AndroidBackupParser._find_password
find_password_ab(password_files) ==
    IF password_files[1] # ABSENT THEN read_password_file(password_files[1])
    ELSE IF password_files[2] # ABSENT
    THEN read_password_file(password_files[2])
    ELSE None

\* The password.txt branch of iOSBackupParser._find_password for a ZIP:
\* password_files[1] is the file inside the ZIP, [2] the one next to it.
find_password_zip(password_files) ==
    IF password_files[1] \notin {ABSENT, UNREADABLE, <<>>}
    THEN StripWs(password_files[1])
    ELSE IF password_files[2] \in {ABSENT, UNREADABLE} THEN None
    ELSE StripWs(password_files[2])

\* The loop over locations of iOSBackupParser._find_password.
RECURSIVE find_password_dir(_, _)
find_password_dir(locations, i) ==
    IF i > Len(locations) THEN None
    ELSE IF /\ locations[i] \notin {ABSENT, UNREADABLE}
            /\ StripWs(locations[i]) # <<>>
    THEN StripWs(locations[i])
    ELSE find_password_dir(locations, i + 1)

\* iOSBackupParser._find_password
find_password_ios(p) ==
    IF Truthy(p.password) THEN p.password
    ELSE IF p.kind = "ios_zip" THEN find_password_zip(p.password_files)
    ELSE find_password_dir(p.password_files, 1)

\* password before the callback is considered
FoundPassword(p) ==
    IF p.kind = "ab"
    THEN IF p.password # None THEN p.password
         ELSE find_password_ab(p.password_files)
    ELSE find_password_ios(p)

\* A test before the callback that does not look at the password.
NeedsPrompt_Always(kind, pw) == TRUE

\* 'password is None' of AndroidBackupParser.parse, 'not password' of
\* iOSBackupParser.parse
NeedsPrompt(kind, pw) == IF kind = "ab" THEN pw = None ELSE ~Truthy(pw)

\* ... and password_callback
Prompts(p, pw) == NeedsPrompt(p.kind, pw) /\ p.callback.given

\* password after the callback
ObtainedPassword(p, pw) == IF Prompts(p, pw) THEN p.callback.result ELSE pw

\* The error raised when no password was obtained.
NoPasswordError(kind) ==
    IF kind = "ab" THEN "AndroidBackupError: Encrypted backup requires a password"
    ELSE "ValueError: Backup is encrypted but no password provided"

INVALID_PASSWORD == "AndroidBackupError: Invalid password or corrupted backup"

\* The password the backup was made with.
BACKUP_PASSWORD == <<"good">>

\* What the master key blob decrypted with pw holds: with the password of
\* the backup the stored checksum of the master key; with another password
\* bytes that either end before the three length-prefixed fields are read
\* ("short") or give a checksum other than the recomputed one ("mismatch").
DecryptedBlob(p, pw) == IF pw = BACKUP_PASSWORD THEN "match" ELSE p.garbage

\* _decrypt_payload that goes on to the payload whatever the checksum is.
decrypt_payload_unverified(blob) ==
    IF blob = "short"
    THEN [outcome |-> "IndexError", payload_decrypted |-> FALSE]
    ELSE [outcome |-> "decrypted", payload_decrypted |-> TRUE]

\* AndroidBackupParser._decrypt_payload
decrypt_payload(blob) ==
    IF blob = "short"
    THEN [outcome |-> "IndexError", payload_decrypted |-> FALSE]
    ELSE IF blob = "mismatch"
    THEN [outcome |-> INVALID_PASSWORD, payload_decrypted |-> FALSE]
    ELSE [outcome |-> "decrypted", payload_decrypted |-> TRUE]

\* iOSBackupParser._parse_encrypted
parse_encrypted(p, pw) ==
    IF p.kind = "ios_zip"
    THEN "RuntimeError: Encrypted backups in ZIP format are not yet supported"
    ELSE IF pw = BACKUP_PASSWORD THEN "decrypted"
    ELSE "RuntimeError: Failed to parse encrypted backup"

(***************************************************************************)
(* SpecDecode: one encrypted backup decoded once.                          *)
(***************************************************************************)
Passwords == {<<>>, <<"good">>, <<"bad">>}

PasswordFiles ==
    {ABSENT, UNREADABLE, <<>>, <<" ", "\n">>, <<"good", "\n">>, <<"bad">>}

\* password_callback: not given, or returning None or a password
Callbacks ==
    {NoCallback} \cup
    {[given |-> TRUE, result |-> pw] : pw \in Passwords \cup {None}}

Parsers ==
    {p \in [kind : {"ab", "ios_dir", "ios_zip"},
            password : Passwords \cup {None},
            password_files : PasswordFiles \X PasswordFiles,
            callback : Callbacks,
            garbage : {"short", "mismatch"}] :
        p.kind = "ios_zip" => p.password_files[1] # UNREADABLE}

InitDecode ==
    /\ parser \in Parsers
    /\ InitParseLocals
    /\ last_op = "init"
    /\ InitNoAcquisition
    /\ InitNoMapper
    /\ InitNoTar
    /\ InitNoEntry
    /\ InitNoArchive
    /\ InitNoAux

\* parse() up to the point where it has a password or raises for want of
\* one.
ObtainPassword ==
    /\ last_op = "init"
    /\ callback_calls' =
          IF Prompts(parser, FoundPassword(parser)) THEN callback_calls + 1
          ELSE callback_calls
    /\ password' = ObtainedPassword(parser, FoundPassword(parser))
    /\ IF NeedsPrompt(parser.kind, password')
       THEN /\ outcome' = NoPasswordError(parser.kind)
            /\ last_op' = "parse"
       ELSE /\ outcome' = outcome
            /\ last_op' = "password"
    /\ UNCHANGED <<parser, tried, payload_decrypted, returned_backup,
                   acquisition_vars, mapper_vars, tar_vars, entry_vars,
                   archive_vars, aux_vars>>

\* The rest of AndroidBackupParser.parse.
DecryptAb ==
    /\ last_op = "password"
    /\ parser.kind = "ab"
    /\ tried' = Append(tried, password)
    /\ payload_decrypted' =
          decrypt_payload(DecryptedBlob(parser, password)).payload_decrypted
    /\ IF payload_decrypted'
       THEN /\ outcome' = "returned"
            /\ returned_backup' = [kind |-> "ab", is_encrypted |-> TRUE]
       ELSE /\ outcome' = decrypt_payload(DecryptedBlob(parser, password)).outcome
            /\ returned_backup' = returned_backup
    /\ last_op' = "parse"
    /\ UNCHANGED <<parser, password, callback_calls, acquisition_vars,
                   mapper_vars, tar_vars, entry_vars, archive_vars,
                   aux_vars>>

\* The rest of iOSBackupParser.parse.
DecryptIos ==
    /\ last_op = "password"
    /\ parser.kind # "ab"
    /\ tried' = IF parser.kind = "ios_zip" THEN tried
                ELSE Append(tried, password)
    /\ payload_decrypted' = (parse_encrypted(parser, password) = "decrypted")
    /\ IF payload_decrypted'
       THEN /\ outcome' = "returned"
            /\ returned_backup' = [kind |-> "ios", is_encrypted |-> TRUE]
       ELSE /\ outcome' = parse_encrypted(parser, password)
            /\ returned_backup' = returned_backup
    /\ last_op' = "parse"
    /\ UNCHANGED <<parser, password, callback_calls, acquisition_vars,
                   mapper_vars, tar_vars, entry_vars, archive_vars,
                   aux_vars>>

NextDecode ==
    \/ ObtainPassword
    \/ DecryptAb
    \/ DecryptIos

SpecDecode == InitDecode /\ [][NextDecode]_vars

(***************************************************************************)
(* ios_backup_parser.py: ParsingLog.                                       *)
(***************************************************************************)
\* actual_size=None
NoSize == -1

\* ParsingLogEntry(file_id, domain, relative_path, status, details,
\* manifest_size): the fields the log's counters depend on.
ParsingLogEntry(file_id, status, manifest_size) ==
    [file_id |-> file_id, status |-> status, manifest_size |-> manifest_size,
     actual_size |-> NoSize]

\* A counter that goes up whatever the status is.
Increment_Always(counted, status, n) == n + 1

\* One arm of the if / elif chain of add_entry.
Increment(counted, status, n) == IF status = counted THEN n + 1 ELSE n

\* ParsingLog.add_entry: the log afterwards.  The dict holds the position
\* of the entry object in entries.
add_entry(log, file_id, status, manifest_size) ==
    [log EXCEPT
        !.entries = Append(@, ParsingLogEntry(file_id, status, manifest_size)),
        !.entry_by_file_id =
            IF file_id # <<>> THEN DictSet(@, file_id, Len(log.entries) + 1)
            ELSE @,
        !.files_added = Increment("added_file", status, @),
        !.directories_added = Increment("added_directory", status, @),
        !.skipped_no_content = Increment("skipped_no_content", status, @),
        !.errors = Increment("error", status, @)]

\* The body of update_actual_size for the entry at position i.
UpdateEntry(log, i, actual_size) ==
    [log EXCEPT
        !.entries[i].actual_size = actual_size,
        !.size_mismatches =
            IF actual_size # NoSize /\ log.entries[i].manifest_size # actual_size
            THEN @ + 1 ELSE @,
        !.manifest_size_zero =
            IF /\ actual_size # NoSize
               /\ log.entries[i].manifest_size # actual_size
               /\ log.entries[i].manifest_size = 0
               /\ actual_size > 0
            THEN @ + 1 ELSE @]

\* ParsingLog.update_actual_size: the log afterwards.
update_actual_size(log, file_id, actual_size) ==
    IF file_id \in DictKeys(log.entry_by_file_id)
    THEN UpdateEntry(log, DictGet(log.entry_by_file_id, file_id), actual_size)
    ELSE log

(***************************************************************************)
(* SpecLog: calls on one ParsingLog.                                       *)
(***************************************************************************)
\* Arguments of add_entry: every status, an empty file_id, a file_id used
\* by several entries, manifest sizes 0 and 1.
AddCalls ==
    {<<<<"f1">>, "added_file", 0>>, <<<<"f1">>, "added_file", 1>>,
     <<<<"f2">>, "added_file", 1>>, <<<<"f1">>, "added_directory", 0>>,
     <<<<>>, "skipped_no_content", 0>>, <<<<"f2">>, "error", 0>>,
     <<<<"f2">>, "size_mismatch", 1>>}

\* Arguments of update_actual_size.
UpdateCalls == {<<"f1">>, <<"f2">>} \X {NoSize, 0, 1}

InitLog ==
    /\ parsing_log = EmptyLog
    /\ log_calls = 0
    /\ last_op = "init"
    /\ InitNoAcquisition
    /\ InitNoMapper
    /\ InitNoTar
    /\ InitNoEntry
    /\ InitNoArchive
    /\ InitNoDecode
    /\ InitNoLoader
    /\ InitNoKey
    /\ InitNoExtract

\* log.add_entry(file_id, domain, relative_path, status, details,
\* manifest_size)
LogAddEntry(c) ==
    /\ log_calls < MaxLogCalls
    /\ parsing_log' = add_entry(parsing_log, c[1], c[2], c[3])
    /\ log_calls' = log_calls + 1
    /\ last_op' = "add_entry"
    /\ UNCHANGED <<acquisition_vars, mapper_vars, tar_vars, entry_vars,
                   archive_vars, decode_vars, loader_vars, key_vars,
                   extract_vars>>

\* log.update_actual_size(file_id, actual_size)
LogUpdateActualSize(c) ==
    /\ log_calls < MaxLogCalls
    /\ parsing_log' = update_actual_size(parsing_log, c[1], c[2])
    /\ log_calls' = log_calls + 1
    /\ last_op' = "update_actual_size"
    /\ UNCHANGED <<acquisition_vars, mapper_vars, tar_vars, entry_vars,
                   archive_vars, decode_vars, loader_vars, key_vars,
                   extract_vars>>

NextLog ==
    \/ \E c \in AddCalls : LogAddEntry(c)
    \/ \E c \in UpdateCalls : LogUpdateActualSize(c)

SpecLog == InitLog /\ [][NextLog]_vars

(***************************************************************************)
(* filesystem_loader.py: the container mappings FilesystemLoader.load()    *)
(* fills from metadata plists and from applicationState.db.                *)
(***************************************************************************)
\* The five typed mappings and the combined one, all empty.
NoMappings ==
    [app |-> <<>>, group |-> <<>>, plugin |-> <<>>, system |-> <<>>,
     system_group |-> <<>>, combined |-> <<>>]

\* mapping[key] = value
MapSet(m, key, value) == (key :> value) @@ m

\* A database write that does not look whether the key is there.
SetIfAbsent_Overwrite(m, key, value) == MapSet(m, key, value)

\* if key not in mapping: mapping[key] = value
SetIfAbsent(m, key, value) ==
    IF key \in DOMAIN m THEN m ELSE MapSet(m, key, value)

\* str.upper() on the GUIDs of the listings.
Upper(guid) == IF guid = <<"g2">> THEN <<"G2">> ELSE guid

\* The typed mapping and the combined mapping written by one metadata
\* plist with a bundle id and a GUID.
PlistWrite(m, pl) ==
    [m EXCEPT ![pl.container_type] = MapSet(@, pl.bundle_id, pl.guid),
              !.combined = MapSet(@, pl.bundle_id, pl.guid)]

\* One iteration of the loop over metadata_files.
PlistStep(m, pl) ==
    IF ~pl.has_content \/ pl.bundle_id = <<>> \/ pl.guid = None THEN m
    ELSE PlistWrite(m, pl)

RECURSIVE PlistsUpTo(_, _, _)
PlistsUpTo(m, plists, n) ==
    IF n = 0 THEN m
    ELSE PlistStep(PlistsUpTo(m, plists, n - 1), plists[n])

\* The writes of one database row whose path holds a GUID.
RowWrite(m, row, guid) ==
    [m EXCEPT
        !.app = IF row.path_type = "app"
                THEN SetIfAbsent(@, row.bundle_id, guid) ELSE @,
        !.group = IF row.path_type = "group"
                  THEN SetIfAbsent(@, row.bundle_id, guid) ELSE @,
        !.plugin = IF row.path_type = "plugin"
                   THEN SetIfAbsent(@, row.bundle_id, guid) ELSE @,
        !.combined = SetIfAbsent(@, row.bundle_id, guid)]

\* One iteration of the loop over the rows of applicationState.db.
RowStep(m, row) ==
    IF row.bundle_id = <<>> \/ row.guid = None THEN m
    ELSE RowWrite(m, row, Upper(row.guid))

RECURSIVE RowsUpTo(_, _, _)
RowsUpTo(m, rows, n) ==
    IF n = 0 THEN m
    ELSE RowStep(RowsUpTo(m, rows, n - 1), rows[n])

\* The mappings of the acquisition that load() returns.
load_mappings(src) ==
    IF src.platform = "ios"
    THEN RowsUpTo(PlistsUpTo(NoMappings, src.plists, Len(src.plists)),
                  src.rows, Len(src.rows))
    ELSE NoMappings

(***************************************************************************)
(* SpecLoad: one listing loaded once.                                      *)
(***************************************************************************)
BUNDLE_A == <<"bundleA">>
BUNDLE_B == <<"bundleB">>

MetadataPlist(container_type, bundle_id, guid, has_content) ==
    [container_type |-> container_type, bundle_id |-> bundle_id,
     guid |-> guid, has_content |-> has_content]

\* Metadata plists under the container directories: two containers of
\* bundleA of one type, containers of other types, a plist without
\* MCMMetadataIdentifier, one whose directory is no GUID and one that
\* could not be read.
MetadataPlists ==
    {MetadataPlist("app", BUNDLE_A, <<"G1">>, TRUE),
     MetadataPlist("app", BUNDLE_A, <<"G3">>, TRUE),
     MetadataPlist("group", BUNDLE_A, <<"G4">>, TRUE),
     MetadataPlist("system", BUNDLE_B, <<"G5">>, TRUE),
     MetadataPlist("app", <<>>, <<"G1">>, TRUE),
     MetadataPlist("plugin", BUNDLE_B, None, TRUE),
     MetadataPlist("app", BUNDLE_B, <<"G5">>, FALSE)}

StateRow(bundle_id, path_type, guid) ==
    [bundle_id |-> bundle_id, path_type |-> path_type, guid |-> guid]

\* Rows of applicationState.db: sandbox paths of the three types the
\* database pass knows, a path of another kind, a row without a GUID in
\* its path and a row without a bundle id.
StateRows ==
    {StateRow(BUNDLE_A, "app", <<"g2">>),
     StateRow(BUNDLE_A, "group", <<"G6">>),
     StateRow(BUNDLE_B, "app", <<"G6">>),
     StateRow(BUNDLE_B, "plugin", <<"g2">>),
     StateRow(BUNDLE_B, "other", <<"G7">>),
     StateRow(BUNDLE_A, "app", None),
     StateRow(<<>>, "app", <<"G6">>)}

InitLoad ==
    /\ container_sources \in
          [platform : {"ios", "android"},
           plists : SeqUpTo(MetadataPlists, MaxPlists),
           rows : SeqUpTo(StateRows, MaxRows)]
    /\ loaded_mappings = NoMappings
    /\ last_op = "init"
    /\ InitNoAcquisition
    /\ InitNoMapper
    /\ InitNoTar
    /\ InitNoEntry
    /\ InitNoArchive
    /\ InitNoDecode
    /\ InitNoLog
    /\ InitNoKey
    /\ InitNoExtract

\* FilesystemLoader.load(): the container mappings part
Load ==
    /\ last_op = "init"
    /\ loaded_mappings' = load_mappings(container_sources)
    /\ last_op' = "load"
    /\ UNCHANGED <<container_sources, acquisition_vars, mapper_vars, tar_vars,
                   entry_vars, archive_vars, decode_vars, log_vars, key_vars,
                   extract_vars>>

NextLoad == Load

SpecLoad == InitLoad /\ [][NextLoad]_vars

(***************************************************************************)
(* The key the master key checksum of an encrypted .ab is computed from.   *)
(***************************************************************************)
\* a | b, a & b and a >> n on non-negative integers
RECURSIVE BitOr(_, _)
BitOr(a, b) ==
    IF a = 0 THEN b
    ELSE IF b = 0 THEN a
    ELSE (IF a % 2 = 1 \/ b % 2 = 1 THEN 1 ELSE 0)
             + 2 * BitOr(a \div 2, b \div 2)

RECURSIVE BitAnd(_, _)
BitAnd(a, b) ==
    IF a = 0 \/ b = 0 THEN 0
    ELSE (IF a % 2 = 1 /\ b % 2 = 1 THEN 1 ELSE 0)
             + 2 * BitAnd(a \div 2, b \div 2)

Shr(a, n) == a \div (2 ^ n)

\* A conversion that copies every byte.
Utf8Bytes_Copy(byte) == <<byte>>

\* The bytes one iteration of _convert_to_utf8_bytes appends.
Utf8Bytes(byte) ==
    IF byte < 128 THEN <<byte>>
    ELSE <<BitOr(239, Shr(byte, 12)),
           BitOr(188, BitAnd(Shr(byte, 6), 63)),
           BitOr(128, BitAnd(byte, 63))>>

\* AndroidBackupParser._convert_to_utf8_bytes
RECURSIVE convert_to_utf8_bytes(_)
convert_to_utf8_bytes(input_bytes) ==
    IF input_bytes = <<>> THEN <<>>
    ELSE convert_to_utf8_bytes(SubSeq(input_bytes, 1, Len(input_bytes) - 1))
             \o Utf8Bytes(input_bytes[Len(input_bytes)])

\* converted_key of _decrypt: the key the checksum is computed from
checksum_key(format_version, key) ==
    IF format_version >= 2 THEN convert_to_utf8_bytes(key) ELSE key

\* Bytes on both sides of 0x80 and at the ends of the range.
KeyBytes == {0, 65, 127, 128, 191, 192, 255}

\* The format versions of .ab headers.
FormatVersions == {1, 2, 5}

InitKey ==
    /\ master_key \in [format_version : FormatVersions,
                       key : SeqUpTo(KeyBytes, MaxKeyLen)]
    /\ converted_key = <<>>
    /\ last_op = "init"
    /\ InitNoAcquisition
    /\ InitNoMapper
    /\ InitNoTar
    /\ InitNoEntry
    /\ InitNoArchive
    /\ InitNoDecode
    /\ InitNoLog
    /\ InitNoLoader
    /\ InitNoExtract

\* AndroidBackupParser._convert_to_utf8_bytes(master_key)
ConvertToUtf8Bytes ==
    /\ last_op = "init"
    /\ converted_key' = convert_to_utf8_bytes(master_key.key)
    /\ last_op' = "convert_to_utf8_bytes"
    /\ UNCHANGED <<master_key, acquisition_vars, mapper_vars, tar_vars,
                   entry_vars, archive_vars, decode_vars, log_vars,
                   loader_vars, extract_vars>>

\* The checksum step of AndroidBackupParser._decrypt
ChecksumKey ==
    /\ last_op = "init"
    /\ converted_key' = checksum_key(master_key.format_version, master_key.key)
    /\ last_op' = "checksum_key"
    /\ UNCHANGED <<master_key, acquisition_vars, mapper_vars, tar_vars,
                   entry_vars, archive_vars, decode_vars, log_vars,
                   loader_vars, extract_vars>>

NextKey ==
    \/ ConvertToUtf8Bytes
    \/ ChecksumKey

SpecKey == InitKey /\ [][NextKey]_vars

(***************************************************************************)
(* filesystem_mapper.py: extract_domain_from_path.                         *)
(***************************************************************************)
\* The value a call returned, and the exception a call ended with.
Returned(domain, rel) ==
    [raised |-> "none", domain |-> domain, relative_path |-> rel]
Raised(exception) ==
    [raised |-> exception, domain |-> <<>>, relative_path |-> <<>>]
NoExtract == [raised |-> "none", domain |-> None, relative_path |-> None]

\* parts[n:] joined by '/': '/'.join(parts[n:]) if len(parts) > n else ''
JoinFrom(parts, n) ==
    IF Len(parts) > n THEN Join(SubSeq(parts, n + 1, Len(parts)), "/")
    ELSE <<>>

\* s.rsplit('-', 1)[0]
BeforeLastHyphen(s) ==
    IF \E k \in 1..Len(s) : s[k] = "-"
    THEN LET k == CHOOSE k \in 1..Len(s) :
                      s[k] = "-" /\ \A j \in (k + 1)..Len(s) : s[j] # "-"
         IN  SubSeq(s, 1, k - 1)
    ELSE s

\* The android rules; the last one reads parts[1] before it checks the
\* length of parts.
ExtractAndroid(parts, fallback) ==
    IF Len(parts) >= 3 /\ parts[1] = <<"data">> /\ parts[2] = <<"data">>
    THEN Returned(parts[3], JoinFrom(parts, 3))
    ELSE IF Len(parts) >= 4 /\ parts[1] = <<"data">> /\ parts[2] = <<"user">>
    THEN Returned(parts[4], JoinFrom(parts, 4))
    ELSE IF Len(parts) >= 3 /\ parts[1] = <<"data">> /\ parts[2] = <<"app">>
    THEN Returned(BeforeLastHyphen(parts[3]), JoinFrom(parts, 3))
    ELSE IF parts[1] = <<"sdcard">>
    THEN Returned(<<"shared", "/", "0">>, JoinFrom(parts, 1))
    ELSE IF parts[1] = <<"storage">> /\ Len(parts) >= 3
            /\ parts[2] = <<"emulated">>
    THEN Returned(<<"shared", "/", "0">>, JoinFrom(parts, 3))
    ELSE IF parts[1] = <<"data">> /\ Len(parts) < 2
    THEN Raised("IndexError")
    ELSE IF parts[1] = <<"data">> /\ parts[2] = <<"media">> /\ Len(parts) >= 3
    THEN Returned(<<"shared", "/", "0">>, JoinFrom(parts, 3))
    ELSE fallback

\* The iOS rules, on parts without a leading 'private'.
ExtractIos(stripped, fallback) ==
    IF Len(stripped) >= 6
       /\ SubSeq(stripped, 1, 4)
              = <<<<"var">>, <<"mobile">>, <<"Containers">>, <<"Data">>>>
       /\ stripped[5] = <<"Application">>
    THEN Returned(<<"AppContainer", "-">> \o stripped[6], JoinFrom(stripped, 6))
    ELSE IF Len(stripped) >= 6
            /\ SubSeq(stripped, 1, 4)
                   = <<<<"var">>, <<"mobile">>, <<"Containers">>, <<"Shared">>>>
            /\ stripped[5] = <<"AppGroup">>
    THEN Returned(<<"AppGroup", "-">> \o stripped[6], JoinFrom(stripped, 6))
    ELSE IF Len(stripped) >= 2 /\ stripped[1] = <<"var">>
            /\ stripped[2] = <<"mobile">>
    THEN Returned(<<"HomeDomain">>, JoinFrom(stripped, 2))
    ELSE fallback

\* extract_domain_from_path(path, platform)
extract_domain_from_path(path, plat) ==
    LET parts == Split(Strip(path, {"/"}), "/")
        fallback == IF Len(parts) >= 2
                    THEN Returned(parts[1], Join(Tail(parts), "/"))
                    ELSE Returned(parts[1], <<>>)
    IN  IF parts = <<<<>>>> THEN Returned(<<>>, <<>>)
        ELSE IF plat = "android" THEN ExtractAndroid(parts, fallback)
        ELSE IF plat = "ios"
        THEN ExtractIos(IF parts[1] = <<"private">> THEN Tail(parts) ELSE parts,
                        fallback)
        ELSE fallback

\* The leading segments of the paths the rules look at, and shorter ones.
PathHeads ==
    {<<>>, <<"data">>, <<"data", "/", "data">>, <<"data", "/", "user">>,
     <<"data", "/", "user", "/", "0">>, <<"data", "/", "app">>,
     <<"data", "/", "media">>, <<"sdcard">>, <<"storage">>,
     <<"storage", "/", "emulated">>, <<"private">>, <<"var", "/", "mobile">>,
     <<"private", "/", "var", "/", "mobile">>,
     <<"var", "/", "mobile", "/", "Containers", "/", "Data", "/",
       "Application">>,
     <<"private", "/", "var", "/", "mobile", "/", "Containers", "/", "Shared",
       "/", "AppGroup">>,
     <<"var", "/", "mobile", "/", "Containers", "/", "Data">>}

PathSegments == {<<"etc">>, <<"0">>, <<"pkgA", "-", "1">>}

JoinAll(segments) == Join(segments, "/")

\* Paths with and without a leading and a trailing '/'.
ExtractPaths ==
    { lead \o (IF h # <<>> /\ t # <<>> THEN h \o <<"/">> \o JoinAll(t)
               ELSE h \o JoinAll(t)) \o trail :
          h \in PathHeads, t \in SeqUpTo(PathSegments, MaxSegments),
          lead \in {<<>>, <<"/">>}, trail \in {<<>>, <<"/">>} }

InitExtract ==
    /\ path_arg \in [path : ExtractPaths, platform : {"android", "ios", "other"}]
    /\ extracted = NoExtract
    /\ last_op = "init"
    /\ InitNoAcquisition
    /\ InitNoMapper
    /\ InitNoTar
    /\ InitNoEntry
    /\ InitNoArchive
    /\ InitNoDecode
    /\ InitNoLog
    /\ InitNoLoader
    /\ InitNoKey

\* extract_domain_from_path(path, platform)
ExtractDomainFromPath ==
    /\ last_op = "init"
    /\ extracted' = extract_domain_from_path(path_arg.path, path_arg.platform)
    /\ last_op' = "extract_domain_from_path"
    /\ UNCHANGED <<path_arg, acquisition_vars, mapper_vars, tar_vars,
                   entry_vars, archive_vars, decode_vars, log_vars,
                   loader_vars, key_vars>>

NextExtract == ExtractDomainFromPath

SpecExtract == InitExtract /\ [][NextExtract]_vars

(***************************************************************************)
(* android_path_mapper.py: AndroidPathMapper.                              *)
(***************************************************************************)
PACKAGE == "{package}"

\* TOKEN_PATH_MAPPINGS.get(token): the template, None for no entry
TOKEN_PATH_MAPPINGS(token) ==
    CASE token = <<"a">> -> Abs(<<"data", "app", PACKAGE>>) \o <<"/">>
      [] token = <<"r">> -> Abs(<<"data", "data", PACKAGE>>) \o <<"/">>
      [] token = <<"f">> -> Abs(<<"data", "data", PACKAGE, "files">>) \o <<"/">>
      [] token = <<"db">> ->
             Abs(<<"data", "data", PACKAGE, "databases">>) \o <<"/">>
      [] token = <<"sp">> ->
             Abs(<<"data", "data", PACKAGE, "shared_prefs">>) \o <<"/">>
      [] token = <<"c">> -> Abs(<<"data", "data", PACKAGE, "cache">>) \o <<"/">>
      [] token = <<"nb">> ->
             Abs(<<"data", "data", PACKAGE, "no_backup">>) \o <<"/">>
      [] token = <<"ef">> ->
             Abs(<<"storage", "emulated", "0", "Android", "data", PACKAGE,
                   "files">>) \o <<"/">>
      [] token = <<"obb">> ->
             Abs(<<"storage", "emulated", "0", "Android", "obb", PACKAGE>>)
                 \o <<"/">>
      [] token = <<"d_r">> -> Abs(<<"data", "user_de", "0", PACKAGE>>) \o <<"/">>
      [] token = <<"d_f">> ->
             Abs(<<"data", "user_de", "0", PACKAGE, "files">>) \o <<"/">>
      [] token = <<"d_db">> ->
             Abs(<<"data", "user_de", "0", PACKAGE, "databases">>) \o <<"/">>
      [] token = <<"d_sp">> ->
             Abs(<<"data", "user_de", "0", PACKAGE, "shared_prefs">>) \o <<"/">>
      [] token = <<"d_c">> ->
             Abs(<<"data", "user_de", "0", PACKAGE, "cache">>) \o <<"/">>
      [] token = <<"d_nb">> ->
             Abs(<<"data", "user_de", "0", PACKAGE, "no_backup">>) \o <<"/">>
      [] OTHER -> None

\* s.replace(atom, by)
RECURSIVE Replace(_, _, _)
Replace(s, atom, by) ==
    IF s = <<>> THEN <<>>
    ELSE (IF s[1] = atom THEN by ELSE <<s[1]>>) \o Replace(Tail(s), atom, by)

\* relative_path.split('/', 1), then parts[1] if there are two parts else ''
Remaining(relative_path) ==
    LET path_parts == Split1(relative_path, "/")
    IN  IF Len(path_parts) > 1 THEN path_parts[2] ELSE <<>>

\* The cache is a dict from package name to directory name or None.
CacheSet(cache, k, v) ==
    [x \in (DOMAIN cache) \cup {k} |-> IF x = k THEN v ELSE cache[x]]

P_DATA_APP == <<"/", "data", "/", "app", "/">>

\* The first key of the index, in dict order, that starts with prefix;
\* 0 when there is none.
RECURSIVE FirstKeyWith(_, _, _)
FirstKeyWith(d, prefix, i) ==
    IF i > Len(d) THEN 0
    ELSE IF StartsWith(d[i].key, prefix) THEN i
    ELSE FirstKeyWith(d, prefix, i + 1)

\* AndroidPathMapper._resolve_apk_dir: the result and the cache afterwards.
\* The scan reads _file_index as it is; it does not build it.
resolve_apk_dir(package_name, cache, d) ==
    IF package_name \in DOMAIN cache
    THEN [dir |-> cache[package_name], cache |-> cache]
    ELSE LET i == FirstKeyWith(d, P_DATA_APP \o package_name \o <<"-">>, 1)
         IN  IF i # 0
             THEN LET dir_name ==
                          Split(Drop(d[i].key, Len(P_DATA_APP)), "/")[1]
                  IN  [dir |-> dir_name,
                       cache |-> CacheSet(cache, package_name, dir_name)]
             ELSE [dir |-> None, cache |-> CacheSet(cache, package_name, None)]

MapResult(path, notes, cache) == [path |-> path, notes |-> notes, cache |-> cache]

NOTE_NO_EQUIVALENT == "' has no filesystem equivalent"
NOTE_FALLBACK == "APK dir suffix not found (using package name as fallback)"

\* The APK branch of _map_backup_file (token == 'a').
MapApk(bf, cache, d) ==
    LET r == resolve_apk_dir(bf.domain, cache, d)
        remaining == Remaining(bf.relative_path)
    IN  IF r.dir # None /\ r.dir # <<>>
        THEN MapResult(IF remaining # <<>>
                       THEN P_DATA_APP \o r.dir \o <<"/">> \o remaining
                       ELSE P_DATA_APP \o r.dir,
                       <<"APK dir resolved: ">> \o r.dir, r.cache)
        ELSE MapResult(IF remaining # <<>>
                       THEN P_DATA_APP \o bf.domain \o <<"/">> \o remaining
                       ELSE P_DATA_APP \o bf.domain,
                       <<NOTE_FALLBACK>>, r.cache)

\* The standard token branch without the rstrip('/') of the base path.
MapTemplate_NoRStrip(bf, cache) ==
    LET template == TOKEN_PATH_MAPPINGS(bf.token)
        base_path == Replace(template, PACKAGE, bf.domain)
        remaining == Remaining(bf.relative_path)
    IN  IF template = None
        THEN MapResult(None, <<"Unknown token: ">> \o bf.token, cache)
        ELSE MapResult(IF remaining # <<>>
                       THEN base_path \o <<"/">> \o remaining
                       ELSE base_path,
                       <<"Token '">> \o bf.token \o <<"' mapping">>, cache)

\* The standard token branch of _map_backup_file.
MapTemplate(bf, cache) ==
    LET template == TOKEN_PATH_MAPPINGS(bf.token)
        base_path == RStrip(Replace(template, PACKAGE, bf.domain), {"/"})
        remaining == Remaining(bf.relative_path)
    IN  IF template = None
        THEN MapResult(None, <<"Unknown token: ">> \o bf.token, cache)
        ELSE MapResult(IF remaining # <<>>
                       THEN base_path \o <<"/">> \o remaining
                       ELSE base_path,
                       <<"Token '">> \o bf.token \o <<"' mapping">>, cache)

\* The shared storage branch with user 0 for every shared domain.
MapShared_User0(bf, cache) ==
    IF bf.relative_path # <<>>
    THEN MapResult(<<"/", "data", "/", "media", "/", "0", "/">>
                       \o bf.relative_path,
                   <<"Shared storage">>, cache)
    ELSE MapResult(<<"/", "data", "/", "media", "/", "0">>,
                   <<"Shared storage root">>, cache)

\* The shared storage branch of _map_backup_file.
MapShared(bf, cache) ==
    LET parts == Split1(bf.domain, "/")
        user_id == IF Len(parts) > 1 THEN parts[2] ELSE <<"0">>
    IN  IF bf.relative_path # <<>>
        THEN MapResult(<<"/", "data", "/", "media", "/">> \o user_id
                           \o <<"/">> \o bf.relative_path,
                       <<"Shared storage">>, cache)
        ELSE MapResult(<<"/", "data", "/", "media", "/">> \o user_id,
                       <<"Shared storage root">>, cache)

\* _map_backup_file with the shared storage test ahead of the token test.
map_backup_file_shared_first(bf, cache, d) ==
    IF StartsWith(bf.domain, <<"shared", "/">>) THEN MapShared(bf, cache)
    ELSE IF bf.token \in UNMAPPABLE_TOKENS
    THEN MapResult(None, <<"Token '">> \o bf.token \o <<NOTE_NO_EQUIVALENT>>,
                   cache)
    ELSE IF bf.token = <<>>
    THEN MapResult(None, <<"Package root entry (no token)">>, cache)
    ELSE IF bf.token = <<"a">> THEN MapApk(bf, cache, d)
    ELSE MapTemplate(bf, cache)

\* AndroidPathMapper._map_backup_file: (filesystem_path, notes) and the
\* APK directory cache afterwards.
map_backup_file(bf, cache, d) ==
    IF bf.token \in UNMAPPABLE_TOKENS
    THEN MapResult(None, <<"Token '">> \o bf.token \o <<NOTE_NO_EQUIVALENT>>,
                   cache)
    ELSE IF StartsWith(bf.domain, <<"shared", "/">>) THEN MapShared(bf, cache)
    ELSE IF bf.token = <<>>
    THEN MapResult(None, <<"Package root entry (no token)">>, cache)
    ELSE IF bf.token = <<"a">> THEN MapApk(bf, cache, d)
    ELSE MapTemplate(bf, cache)

(***************************************************************************)
(* path_mapper.py: PathMapper (iOS).                                       *)
(***************************************************************************)
P_VAR == <<"/", "private", "/", "var">>
P_VAR_MOBILE == P_VAR \o <<"/", "mobile">>

\* PathMapper.DOMAIN_MAPPINGS.get(base_domain): the base path, None for
\* no entry
DOMAIN_MAPPINGS(base_domain) ==
    CASE base_domain = <<"KeychainDomain">> -> P_VAR \o <<"/", "Keychains">>
      [] base_domain = <<"CameraRollDomain">> -> P_VAR_MOBILE
      [] base_domain = <<"MobileDeviceDomain">> -> P_VAR \o <<"/", "MobileDevice">>
      [] base_domain = <<"WirelessDomain">> -> P_VAR \o <<"/", "wireless">>
      [] base_domain = <<"InstallDomain">> -> P_VAR \o <<"/", "installd">>
      [] base_domain = <<"KeyboardDomain">> -> P_VAR_MOBILE
      [] base_domain = <<"HomeDomain">> -> P_VAR_MOBILE
      [] base_domain = <<"SystemPreferencesDomain">> ->
             P_VAR \o <<"/", "preferences">>
      [] base_domain = <<"DatabaseDomain">> -> P_VAR \o <<"/", "db">>
      [] base_domain = <<"TonesDomain">> -> P_VAR_MOBILE
      [] base_domain = <<"RootDomain">> -> P_VAR \o <<"/", "root">>
      [] base_domain = <<"BooksDomain">> ->
             P_VAR_MOBILE \o <<"/", "Media", "/", "Books">>
      [] base_domain = <<"ManagedPreferencesDomain">> ->
             P_VAR \o <<"/", "Managed Preferences">>
      [] base_domain = <<"HomeKitDomain">> -> P_VAR_MOBILE
      [] base_domain = <<"MediaDomain">> -> P_VAR_MOBILE
      [] base_domain = <<"HealthDomain">> -> P_VAR_MOBILE \o <<"/", "Library">>
      [] base_domain = <<"ProtectedDomain">> -> P_VAR \o <<"/", "protected">>
      [] base_domain = <<"NetworkDomain">> -> P_VAR \o <<"/", "networkd">>
      [] base_domain = <<"AppDomain">> ->
             P_VAR_MOBILE \o <<"/", "Containers", "/", "Data", "/", "Application">>
      [] base_domain = <<"AppDomainGroup">> ->
             P_VAR_MOBILE \o <<"/", "Containers", "/", "Shared", "/", "AppGroup">>
      [] base_domain = <<"AppDomainPlugin">> ->
             P_VAR_MOBILE
                 \o <<"/", "Containers", "/", "Data", "/", "PluginKitPlugin">>
      [] base_domain = <<"SysContainerDomain">> ->
             P_VAR \o <<"/", "containers", "/", "Data", "/", "System">>
      [] base_domain = <<"SysSharedContainerDomain">> ->
             P_VAR \o <<"/", "containers", "/", "Shared", "/", "SystemGroup">>
      [] base_domain = <<"Filesystem">> -> P_VAR_MOBILE \o <<"/", "Media">>
      [] OTHER -> None

\* PathMapper._parse_domain: (base_domain, identifier)
parse_domain(domain) ==
    IF Contains(domain, "-")
    THEN LET parts == Split1(domain, "-")
         IN  [base |-> parts[1], identifier |-> parts[2]]
    ELSE [base |-> domain, identifier |-> None]

\* dict.get on a bundle-id -> GUID mapping
GuidGet(m, bundle_id) == IF bundle_id \in DOMAIN m THEN m[bundle_id] ELSE None

\* A lookup that takes the GUID from whichever mapping records the bundle
\* id, the typed one first.
get_container_guid_any_type(conts, bundle_id, domain_type) ==
    LET typed == IF domain_type = "app" THEN conts.app
                 ELSE IF domain_type = "group" THEN conts.group
                 ELSE IF domain_type = "plugin" THEN conts.plugin
                 ELSE IF domain_type = "system" THEN conts.system
                 ELSE conts.system_group
    IN  IF bundle_id \in DOMAIN typed THEN typed[bundle_id]
        ELSE IF bundle_id \in DOMAIN conts.app THEN conts.app[bundle_id]
        ELSE IF bundle_id \in DOMAIN conts.group THEN conts.group[bundle_id]
        ELSE IF bundle_id \in DOMAIN conts.plugin THEN conts.plugin[bundle_id]
        ELSE IF bundle_id \in DOMAIN conts.system THEN conts.system[bundle_id]
        ELSE IF bundle_id \in DOMAIN conts.system_group
        THEN conts.system_group[bundle_id]
        ELSE None

\* PathMapper._get_container_guid
get_container_guid(conts, bundle_id, domain_type) ==
    IF domain_type = "app" THEN GuidGet(conts.app, bundle_id)
    ELSE IF domain_type = "group" THEN GuidGet(conts.group, bundle_id)
    ELSE IF domain_type = "plugin" THEN GuidGet(conts.plugin, bundle_id)
    ELSE IF domain_type = "system" THEN GuidGet(conts.system, bundle_id)
    ELSE IF domain_type = "system_group"
    THEN GuidGet(conts.system_group, bundle_id)
    ELSE None

\* The container type and the container base path of a container domain.
DomainType(base_domain) ==
    IF base_domain = <<"AppDomain">> THEN "app"
    ELSE IF base_domain = <<"AppDomainGroup">> THEN "group"
    ELSE IF base_domain = <<"AppDomainPlugin">> THEN "plugin"
    ELSE IF base_domain = <<"SysContainerDomain">> THEN "system"
    ELSE "system_group"

ContainerBase(base_domain) ==
    IF base_domain = <<"AppDomain">>
    THEN P_VAR_MOBILE \o <<"/", "Containers", "/", "Data", "/", "Application">>
    ELSE IF base_domain = <<"AppDomainGroup">>
    THEN P_VAR_MOBILE \o <<"/", "Containers", "/", "Shared", "/", "AppGroup">>
    ELSE IF base_domain = <<"AppDomainPlugin">>
    THEN P_VAR_MOBILE \o <<"/", "Containers", "/", "Data", "/", "PluginKitPlugin">>
    ELSE IF base_domain = <<"SysContainerDomain">>
    THEN P_VAR \o <<"/", "containers", "/", "Data", "/", "System">>
    ELSE P_VAR \o <<"/", "containers", "/", "Shared", "/", "SystemGroup">>

CONTAINER_DOMAINS ==
    {<<"AppDomain">>, <<"AppDomainGroup">>, <<"AppDomainPlugin">>,
     <<"SysContainerDomain">>, <<"SysSharedContainerDomain">>}

\* base_path, or base_path/relative_path when relative_path is not empty
WithRelative(base_path, relative_path) ==
    IF relative_path # <<>> THEN base_path \o <<"/">> \o relative_path
    ELSE base_path

\* PathMapper._map_domain_path: (filesystem_path, notes); the cache is the
\* android mapper's and passes through.
map_domain_path(bf, conts, cache) ==
    LET pd == parse_domain(bf.domain)
        identifier == pd.identifier
        guid == get_container_guid(conts, identifier, DomainType(pd.base))
    IN  IF pd.base \in CONTAINER_DOMAINS /\ identifier # None
           /\ identifier # <<>>
        THEN IF guid # None /\ guid # <<>>
             THEN MapResult(
                      WithRelative(ContainerBase(pd.base) \o <<"/">> \o guid,
                                   bf.relative_path),
                      <<"Resolved via container mapping: ">> \o identifier
                          \o <<" -> ">> \o guid,
                      cache)
             ELSE MapResult(
                      WithRelative(ContainerBase(pd.base) \o <<"/">>
                                       \o identifier,
                                   bf.relative_path),
                      (IF pd.base \in {<<"SysContainerDomain">>,
                                       <<"SysSharedContainerDomain">>}
                       THEN <<"Using identifier as fallback (GUID not found): ">>
                       ELSE <<"Using bundle ID as fallback (GUID not found): ">>)
                          \o identifier,
                      cache)
        ELSE IF DOMAIN_MAPPINGS(pd.base) # None
        THEN MapResult(WithRelative(DOMAIN_MAPPINGS(pd.base), bf.relative_path),
                       <<>>, cache)
        ELSE MapResult(None, <<"Unknown domain: ">> \o bf.domain, cache)

(***************************************************************************)
(* map_all of the three mappers.                                           *)
(***************************************************************************)
PathMapping(backup_file, filesystem_path, filesystem_file, status, notes) ==
    [backup_file |-> backup_file, filesystem_path |-> filesystem_path,
     filesystem_file |-> filesystem_file, status |-> status, notes |-> notes]

\* The mapper's own path prediction for one entry.
MapEntry(kind, bf, conts, cache, d) ==
    IF kind = "android" THEN map_backup_file(bf, cache, d)
    ELSE map_domain_path(bf, conts, cache)

\* The state of the mapping loop of AndroidPathMapper.map_all and
\* PathMapper.map_all before its first iteration.
LoopStart(cache, d) ==
    [mappings |-> <<>>, cache |-> cache, index |-> d, mapped |-> 0,
     not_found |-> 0, unmappable |-> 0, mapped_fs_paths |-> {}]

\* The tail of one iteration: the PathMapping appended and the counter
\* incremented for prediction r and lookup result fs_file; d1 is the index
\* after the lookup.
RecordMapping(fs, acc, i, r, d1, fs_file) ==
    IF r.path = None
    THEN [acc EXCEPT
             !.mappings = Append(@, PathMapping(i, None, NoFile, "UNMAPPABLE",
                                                r.notes)),
             !.cache = r.cache,
             !.unmappable = @ + 1]
    ELSE IF fs_file # NoFile
    THEN [acc EXCEPT
             !.mappings = Append(@, PathMapping(i, r.path, fs_file, "MAPPED",
                                                r.notes)),
             !.cache = r.cache,
             !.index = d1,
             !.mapped = @ + 1,
             !.mapped_fs_paths = @ \cup {normalized_path(fs[fs_file])}]
    ELSE [acc EXCEPT
             !.mappings = Append(@, PathMapping(i, r.path, NoFile, "NOT_FOUND",
                                                r.notes)),
             !.cache = r.cache,
             !.index = d1,
             !.not_found = @ + 1]

\* self.filesystem.find_file(filesystem_path) for prediction r, then the
\* tail of the iteration.
LookUp(fs, plat, acc, i, r, d1) ==
    RecordMapping(fs, acc, i, r, d1, find_file_in(d1, plat, r.path))

\* The iteration without its directory test: every entry gets a mapping.
LoopStep_NoSkip(kind, bfs, conts, fs, plat, acc, i) ==
    LookUp(fs, plat, acc, i,
           MapEntry(kind, bfs[i], conts, acc.cache, acc.index),
           EnsureIndex(acc.index, fs, plat))

\* One iteration of the mapping loop, for the i-th backup entry.
LoopStep(kind, bfs, conts, fs, plat, acc, i) ==
    IF is_directory(kind, bfs[i]) THEN acc
    ELSE LookUp(fs, plat, acc, i,
                MapEntry(kind, bfs[i], conts, acc.cache, acc.index),
                EnsureIndex(acc.index, fs, plat))

RECURSIVE LoopUpTo(_, _, _, _, _, _, _)
LoopUpTo(kind, bfs, conts, fs, plat, start, n) ==
    IF n = 0 THEN start
    ELSE LoopStep(kind, bfs, conts, fs, plat,
                  LoopUpTo(kind, bfs, conts, fs, plat, start, n - 1), n)

\* relative_path.rsplit('/', 1)[0] for a relative_path that holds a '/'
RECURSIVE LastIndexOf(_, _, _)
LastIndexOf(s, c, i) ==
    IF i = 0 THEN 0
    ELSE IF s[i] = c THEN i
    ELSE LastIndexOf(s, c, i - 1)

DirName(relative_path) ==
    SubSeq(relative_path, 1, LastIndexOf(relative_path, "/", Len(relative_path)) - 1)

\* The directory paths one backup file implies: its domain and every
\* ancestor directory of its relative path, domain-qualified.
ImpliedDirs(bf) ==
    {bf.domain} \cup
    (IF bf.relative_path # <<>> /\ Contains(bf.relative_path, "/")
     THEN LET parts == Split(DirName(bf.relative_path), "/")
          IN  {bf.domain \o <<"/">> \o Join(SubSeq(parts, 1, k), "/") :
                   k \in 1..Len(parts)}
     ELSE {})

\* backup_dir_paths at the end of the counting loop
BackupDirPaths(kind, bfs) ==
    UNION {ImpliedDirs(bfs[i]) :
               i \in {j \in 1..Len(bfs) : ~is_directory(kind, bfs[j])}}

CountFiles(kind, bfs) ==
    Cardinality({i \in 1..Len(bfs) : ~is_directory(kind, bfs[i])})

CountFsFiles(fs) == Cardinality({i \in 1..Len(fs) : ~fs[i].is_directory})
CountFsDirs(fs) == Cardinality({i \in 1..Len(fs) : fs[i].is_directory})

\* The filesystem-only count: files whose normalized path was not matched.
CountUnmatched(fs, matched) ==
    Cardinality({i \in 1..Len(fs) :
                     ~fs[i].is_directory /\ normalized_path(fs[i]) \notin matched})

\* mapped / total as an exact fraction, without the factor 100
Percent_Ratio(mapped, total) == [num |-> mapped, den |-> total]

\* mapped / total * 100 as an exact fraction
Percent(mapped, total) == [num |-> mapped * 100, den |-> total]

\* backup_only_files counting the files not found only
BackupOnly_NotFoundOnly(not_found_files, unmappable_files) == not_found_files

\* statistics.backup_only_files at the end of map_all
BackupOnly(not_found_files, unmappable_files) ==
    not_found_files + unmappable_files

\* The statistics object the mapper starts map_all with: the android mapper
\* assigns a fresh MappingStatistics(), the iOS mapper keeps self.statistics.
StartStatistics(kind, old) == IF kind = "android" THEN MappingStatistics ELSE old

\* The statistics at the end of AndroidPathMapper.map_all and
\* PathMapper.map_all: every counter is incremented from its start value,
\* total_backup_directories and manifest_db_row_count are assigned.
EndStatistics(kind, old, bfs, fs, acc) ==
    LET st == StartStatistics(kind, old)
        total_fs == st.total_filesystem_files + CountFsFiles(fs)
        mapped == st.mapped_files + acc.mapped
        not_found == st.not_found_files + acc.not_found
        unmappable == st.unmappable_files + acc.unmappable
    IN  [total_backup_files |-> st.total_backup_files + CountFiles(kind, bfs),
         total_backup_directories |-> Cardinality(BackupDirPaths(kind, bfs)),
         total_filesystem_files |-> total_fs,
         total_filesystem_directories |->
             st.total_filesystem_directories + CountFsDirs(fs),
         mapped_files |-> mapped,
         not_found_files |-> not_found,
         unmappable_files |-> unmappable,
         backup_only_files |-> BackupOnly(not_found, unmappable),
         filesystem_only_files |->
             st.filesystem_only_files + CountUnmatched(fs, acc.mapped_fs_paths),
         backup_coverage_percent |->
             IF total_fs > 0 THEN Percent(mapped, total_fs)
             ELSE st.backup_coverage_percent,
         manifest_db_row_count |-> Len(bfs)]

\* One iteration of FilesystemMapper.map_all's loop over source_files.
FsLoopStep(bfs, fs, plat, acc, i) ==
    IF is_directory("fs", bfs[i]) THEN acc
    ELSE LET fs_path == normalized_path(bfs[i].fs_file)
             match == find_file(acc.index, fs, plat, fs_path)
         IN  IF match # NoFile
             THEN [acc EXCEPT
                      !.mappings = Append(@, PathMapping(i, fs_path, match,
                                                         "MAPPED", <<>>)),
                      !.index = EnsureIndex(@, fs, plat),
                      !.mapped = @ + 1,
                      !.mapped_fs_paths = @ \cup {normalized_path(fs[match])}]
             ELSE [acc EXCEPT
                      !.mappings =
                          Append(@, PathMapping(i, fs_path, NoFile, "NOT_FOUND",
                                     <<"Not found in reference filesystem">>)),
                      !.index = EnsureIndex(@, fs, plat),
                      !.not_found = @ + 1]

RECURSIVE FsLoopUpTo(_, _, _, _, _)
FsLoopUpTo(bfs, fs, plat, start, n) ==
    IF n = 0 THEN start
    ELSE FsLoopStep(bfs, fs, plat, FsLoopUpTo(bfs, fs, plat, start, n - 1), n)

\* The statistics at the end of FilesystemMapper.map_all.
FsEndStatistics(bfs, fs, acc) ==
    [total_backup_files |-> CountFiles("fs", bfs),
     total_backup_directories |-> Len(bfs) - CountFiles("fs", bfs),
     total_filesystem_files |-> CountFsFiles(fs),
     total_filesystem_directories |-> CountFsDirs(fs),
     mapped_files |-> acc.mapped,
     not_found_files |-> acc.not_found,
     unmappable_files |-> 0,
     backup_only_files |-> acc.not_found,
     filesystem_only_files |-> CountUnmatched(fs, acc.mapped_fs_paths),
     backup_coverage_percent |->
         IF CountFsFiles(fs) > 0 THEN Percent(acc.mapped, CountFsFiles(fs))
         ELSE MappingStatistics.backup_coverage_percent,
     manifest_db_row_count |-> Len(bfs)]

\* map_all of the mapper of the given kind: the loop's final state and the
\* statistics.  FilesystemMapper.map_all first rebuilds the reference index.
map_all(kind, old, bfs, conts, fs, plat, cache, d) ==
    IF kind = "fs"
    THEN LET acc == FsLoopUpTo(bfs, fs, plat,
                               LoopStart(cache, build_index(fs, plat)), Len(bfs))
         IN  [acc |-> acc, statistics |-> FsEndStatistics(bfs, fs, acc)]
    ELSE LET acc == LoopUpTo(kind, bfs, conts, fs, plat, LoopStart(cache, d),
                             Len(bfs))
         IN  [acc |-> acc, statistics |-> EndStatistics(kind, old, bfs, fs, acc)]

(***************************************************************************)
(* Spec: one mapper over one backup and one filesystem acquisition.        *)
(***************************************************************************)
PKG_A == <<"pkgA">>
SHARED_0 == <<"shared", "/", "0">>
SHARED_1 == <<"shared", "/", "1">>
LIVE_DATA == <<"Live Data">>
GUID_1 == <<"G1">>
GUID_2 == <<"G2">>

\* Filesystem listings of the android runs: a database, a file of the APK
\* directory of pkgA, a shared-storage file and a directory.
AndroidFsPool ==
    { FilesystemFile(Abs(<<"data", "data", "pkgA", "databases", "x">>), FALSE,
                     "android"),
      FilesystemFile(P_DATA_APP \o <<"pkgA", "-", "1", "/", "x">>, FALSE,
                     "android"),
      FilesystemFile(Abs(<<"data", "media", "0", "x">>), FALSE, "android"),
      FilesystemFile(Abs(<<"data", "data", "pkgA", "databases">>), TRUE,
                     "android") }

\* Filesystem listings of the iOS runs: a home file, a container file and a
\* directory.
IosFsPool ==
    { FilesystemFile(P_VAR_MOBILE \o <<"/", "x">>, FALSE, "ios"),
      FilesystemFile(ContainerBase(<<"AppDomain">>) \o <<"/", "G1", "/", "x">>,
                     FALSE, "ios"),
      FilesystemFile(P_VAR_MOBILE, TRUE, "ios") }

FsPool(plat) == IF plat = "android" THEN AndroidFsPool ELSE IosFsPool

\* Backup entries the android listings are made of.
AndroidBackupPool ==
    { AndroidBackupFile(PKG_A, <<"db">>, <<"db", "/", "x">>, MODE_FILE, 1),
      AndroidBackupFile(PKG_A, <<"a">>, <<"a", "/", "x">>, MODE_FILE, 1),
      AndroidBackupFile(PKG_A, <<"_manifest">>, <<"_manifest">>, MODE_FILE, 1),
      AndroidBackupFile(PKG_A, <<"db">>, <<"db">>, MODE_DIR, 2) }

\* Every combination of domain, token, relative path and mode: the entries
\* of the one-entry android backups.
AndroidTokens == KNOWN_TOKENS \cup {<<>>, <<"zz">>}

RelativePaths(token) ==
    {<<>>, <<"x">>} \cup
    (IF token # <<>>
     THEN {token, token \o <<"/", "x">>, token \o <<"/", "x", "/", "y">>}
     ELSE {})

AndroidEntries ==
    UNION { { AndroidBackupFile(domain, token, rel, mode,
                                IF mode = MODE_DIR THEN 2 ELSE 1) :
                  rel \in RelativePaths(token), mode \in {MODE_FILE, MODE_DIR} } :
            domain \in {PKG_A, SHARED_0, SHARED_1, LIVE_DATA},
            token \in AndroidTokens }

\* Backup entries of the iOS listings: a home file, a container file, a
\* file of an unknown domain, and a directory.
IosBackupPool ==
    { BackupFile(<<"id1">>, <<"HomeDomain">>, <<"x">>, 1, MODE_FILE, 1),
      BackupFile(<<"id2">>, <<"AppDomain", "-", "bundleA">>, <<"x">>, 1,
                 MODE_FILE, 1),
      BackupFile(<<"id3">>, <<"NoSuchDomain">>, <<"x">>, 1, MODE_FILE, 1),
      BackupFile(<<"id4">>, <<"HomeDomain">>, <<"Library">>, 0, MODE_DIR, 2) }

\* Source listings of the filesystem-to-filesystem runs, wrapped.
FsBackupPool(plat) == {FilesystemAsBackupFile(f) : f \in FsPool(plat)}

\* The container mappings an iOS acquisition was loaded with.
ContainerChoices ==
    { NoContainers,
      [NoContainers EXCEPT !.app = (BUNDLE_A :> GUID_1)] }

\* The backups a mapper of the given kind is constructed over.
Backups(kind, plat) ==
    IF kind = "android"
    THEN SeqUpTo(AndroidBackupPool, MaxBackupFiles)
    ELSE IF kind = "ios" THEN SeqUpTo(IosBackupPool, MaxBackupFiles)
    ELSE SeqUpTo(FsBackupPool(plat), MaxBackupFiles)

InitMapperFields ==
    /\ file_index = <<>>
    /\ last_find = NoFind
    /\ mappings = <<>>
    /\ statistics = MappingStatistics
    /\ apk_dir_cache = <<>>
    /\ calls = 0
    /\ last_op = "init"
    /\ last_map = NoMap
    /\ InitNoParser

\* A mapper right after its constructor, over a backup and an acquisition
\* whose index may not be built yet.
InitListings ==
    /\ mapper \in {"android", "ios", "fs"}
    /\ platform \in (IF mapper = "android" THEN {"android"}
                     ELSE IF mapper = "ios" THEN {"ios"}
                     ELSE {"android", "ios"})
    /\ files \in SeqUpTo(FsPool(platform), MaxFsFiles)
    /\ backup_files \in Backups(mapper, platform)
    /\ containers \in (IF mapper = "ios" THEN ContainerChoices
                       ELSE {NoContainers})
    /\ InitMapperFields

\* An android mapper over a backup of any one entry.
InitOneEntry ==
    /\ mapper = "android"
    /\ platform = "android"
    /\ files \in SeqUpTo(AndroidFsPool, 1)
    /\ backup_files \in {<<e>> : e \in AndroidEntries}
    /\ containers = NoContainers
    /\ InitMapperFields

\* Backup entries of the container domains: each of the five bases, with an
\* identifier without and with a hyphen, at the container root and below it.
BUNDLE_HYPHEN == <<"bundle", "-", "B">>

ContainerEntries ==
    { BackupFile(<<"id1">>, base \o <<"-">> \o identifier, rel, 1, MODE_FILE, 1) :
          base \in CONTAINER_DOMAINS,
          identifier \in {BUNDLE_A, BUNDLE_HYPHEN},
          rel \in {<<>>, <<"x">>} }

\* Container mappings that record a GUID for an identifier under one type
\* or under two types.
TypedContainerChoices ==
    { NoContainers,
      [NoContainers EXCEPT !.app = (BUNDLE_A :> GUID_1)],
      [NoContainers EXCEPT !.group = (BUNDLE_A :> GUID_2)],
      [NoContainers EXCEPT !.app = (BUNDLE_A :> GUID_1),
                           !.plugin = (BUNDLE_A :> GUID_2)],
      [NoContainers EXCEPT !.system = (BUNDLE_HYPHEN :> GUID_1),
                           !.system_group = (BUNDLE_HYPHEN :> GUID_2)],
      [NoContainers EXCEPT !.plugin = (BUNDLE_HYPHEN :> GUID_1)] }

\* An iOS mapper over a backup of any one container entry.
InitOneContainerEntry ==
    /\ mapper = "ios"
    /\ platform = "ios"
    /\ files \in SeqUpTo(IosFsPool, 1)
    /\ backup_files \in {<<e>> : e \in ContainerEntries}
    /\ containers \in TypedContainerChoices
    /\ InitMapperFields

Init == InitListings \/ InitOneEntry \/ InitOneContainerEntry

\* mapper.get_unmapped_backup_files(): the mappings it lists
get_unmapped_backup_files(ms) ==
    {k \in 1..Len(ms) : ms[k].status \in {"NOT_FOUND", "UNMAPPABLE"}}

\* mapper.get_filesystem_files_not_in_backup(): the entries it lists
get_filesystem_files_not_in_backup(ms, fs) ==
    LET mapped_paths == {normalized_path(fs[ms[k].filesystem_file]) :
                             k \in {j \in 1..Len(ms) :
                                        ms[j].filesystem_file # NoFile}}
    IN  {i \in 1..Len(fs) : /\ ~fs[i].is_directory
                            /\ normalized_path(fs[i]) \notin mapped_paths}

\* mapper.map_all()
MapAll ==
    /\ mapper # "none"
    /\ calls < MaxCalls
    /\ LET r == map_all(mapper, statistics, backup_files, containers, files,
                        platform, apk_dir_cache, file_index)
       IN  /\ mappings' = r.acc.mappings
           /\ statistics' = r.statistics
           /\ apk_dir_cache' = r.acc.cache
           /\ file_index' = r.acc.index
    /\ calls' = calls + 1
    /\ last_op' = "map_all"
    /\ last_map' = NoMap
    /\ UNCHANGED <<platform, files, last_find, mapper, backup_files, containers,
                   parser_vars>>

\* mapper._map_backup_file(backup_files[i]) on the android mapper,
\* mapper._map_domain_path(backup_files[i]) on the iOS mapper
MapBackupFile(i) ==
    /\ mapper \in {"android", "ios"}
    /\ LET r == MapEntry(mapper, backup_files[i], containers, apk_dir_cache,
                         file_index)
       IN  /\ last_map' = [file |-> i, path |-> r.path, notes |-> r.notes]
           /\ apk_dir_cache' = r.cache
    /\ last_op' = "map_backup_file"
    /\ UNCHANGED <<acquisition_vars, mapper, backup_files, containers, mappings,
                   statistics, calls, parser_vars>>

Next ==
    \/ BuildIndex
    \/ MapAll
    \/ \E i \in 1..Len(backup_files) : MapBackupFile(i)

Spec == Init /\ [][Next]_vars

(***************************************************************************)
(* Claims about the alias index (SpecIndex).                               *)
(***************************************************************************)
\* The other spellings of a normalized android path, by the equivalence
\* classes /data/data ~ /data/user/0 and /data/media/0 ~
\* /storage/emulated/0 ~ /sdcard; empty for a path under none of them.
AliasSpellings(np) ==
    (IF StartsWith(np, P_DATA_DATA)
     THEN {P_DATA_USER_0 \o Drop(np, Len(P_DATA_DATA))}
     ELSE IF StartsWith(np, P_DATA_USER_0)
     THEN {P_DATA_DATA \o Drop(np, Len(P_DATA_USER_0))}
     ELSE {})
    \cup
    (IF StartsWith(np, P_DATA_MEDIA_0)
     THEN {P_STORAGE_EMULATED_0 \o Drop(np, Len(P_DATA_MEDIA_0)),
           P_SDCARD \o Drop(np, Len(P_DATA_MEDIA_0))}
     ELSE IF StartsWith(np, P_STORAGE_EMULATED_0)
     THEN {P_DATA_MEDIA_0 \o Drop(np, Len(P_STORAGE_EMULATED_0)),
           P_SDCARD \o Drop(np, Len(P_STORAGE_EMULATED_0))}
     ELSE IF StartsWith(np, P_SDCARD)
     THEN {P_DATA_MEDIA_0 \o Drop(np, Len(P_SDCARD)),
           P_STORAGE_EMULATED_0 \o Drop(np, Len(P_SDCARD))}
     ELSE {})

\* The last entry of the listing stored under np or one of its spellings.
LastEquivalent(np) ==
    LET same == {j \in 1..Len(files) :
                     normalized_path(files[j]) \in AliasSpellings(np) \cup {np}}
    IN  CHOOSE j \in same : \A k \in same : k <= j

IndexIsBuilt == file_index # <<>>

\* C3 as claimed: on an android acquisition whose index is built, find_file
\* of every other spelling of an entry's normalized path returns that very
\* entry.
C3_AliasReturnsEntryItself ==
    (platform = "android" /\ IndexIsBuilt) =>
        \A i \in 1..Len(files) :
            \A s \in AliasSpellings(normalized_path(files[i])) :
                find_file(file_index, files, platform, s) = i

\* C3 amended: on an android acquisition whose index is built, find_file of
\* every other spelling of an entry's normalized path returns what find_file
\* of the normalized path itself returns, namely the last entry of the
\* listing stored under any spelling of that location (the entry itself when
\* no later entry shares the location); a find_file call that was made with
\* such a spelling returned that entry.
C3_AliasReturnsLastEquivalent ==
    (platform = "android" /\ IndexIsBuilt) =>
        \A i \in 1..Len(files) :
            LET np == normalized_path(files[i])
            IN  /\ \A s \in AliasSpellings(np) :
                       /\ find_file(file_index, files, platform, s)
                              = LastEquivalent(np)
                       /\ find_file(file_index, files, platform, np)
                              = LastEquivalent(np)
                       /\ (last_op = "find_file" /\ last_find.path = s)
                              => last_find.result = LastEquivalent(np)
                /\ (AliasSpellings(np) # {} /\ LastEquivalent(np) = i)
                       => \A s \in AliasSpellings(np) :
                              find_file(file_index, files, platform, s) = i

\* C3 witness: two entries share a location under different spellings and
\* find_file of the first one's other spelling returned the second.
C3_Witness ==
    /\ platform = "android"
    /\ last_op = "find_file"
    /\ Len(files) = 2
    /\ normalized_path(files[1]) # normalized_path(files[2])
    /\ last_find.path \in AliasSpellings(normalized_path(files[1]))
    /\ StartsWith(normalized_path(files[1]), P_SDCARD)
    /\ last_find.result = 2

(***************************************************************************)
(* Claims about map_all (Spec).                                            *)
(***************************************************************************)
\* Two statistics objects agree in every field; the coverage percentages
\* are compared as fractions.
SameStatistics(a, b) ==
    /\ a.total_backup_files = b.total_backup_files
    /\ a.total_backup_directories = b.total_backup_directories
    /\ a.total_filesystem_files = b.total_filesystem_files
    /\ a.total_filesystem_directories = b.total_filesystem_directories
    /\ a.mapped_files = b.mapped_files
    /\ a.not_found_files = b.not_found_files
    /\ a.unmappable_files = b.unmappable_files
    /\ a.backup_only_files = b.backup_only_files
    /\ a.filesystem_only_files = b.filesystem_only_files
    /\ a.backup_coverage_percent.num * b.backup_coverage_percent.den
           = b.backup_coverage_percent.num * a.backup_coverage_percent.den
    /\ a.manifest_db_row_count = b.manifest_db_row_count

\* C1: for each of the three mappers, a map_all() call that directly follows
\* a map_all() call on unchanged inputs leaves every field of the statistics
\* equal to its value after the first call and leaves mappings with the same
\* length.
C1_MapAllIdempotent ==
    [][(last_op = "map_all" /\ last_op' = "map_all" /\ calls' = calls + 1)
           => /\ SameStatistics(statistics', statistics)
              /\ Len(mappings') = Len(mappings)]_vars

\* C2: after any number of map_all() calls on any of the three mappers,
\* statistics.backup_only_files equals statistics.not_found_files +
\* statistics.unmappable_files.
C2_BackupOnlyIsSum ==
    statistics.backup_only_files
        = statistics.not_found_files + statistics.unmappable_files

\* C2 witness: the iOS mapper has run map_all() twice over a backup with a
\* file that was not found and a file that was unmappable.
C2_Witness ==
    /\ mapper = "ios"
    /\ calls = 2
    /\ last_op = "map_all"
    /\ statistics.not_found_files > 0
    /\ statistics.unmappable_files > 0

\* The positions of the non-directory entries of the backup.
NonDirectories ==
    {i \in 1..Len(backup_files) : ~is_directory(mapper, backup_files[i])}

\* C4: map_all() produces exactly one PathMapping per non-directory backup
\* entry and none for a directory entry, and every mapping has status
\* MAPPED, NOT_FOUND or UNMAPPABLE.
C4_OneMappingPerFile ==
    calls >= 1 =>
        /\ Len(mappings) = Cardinality(NonDirectories)
        /\ \A i \in NonDirectories :
               Cardinality({k \in 1..Len(mappings) :
                                mappings[k].backup_file = i}) = 1
        /\ \A k \in 1..Len(mappings) :
               /\ mappings[k].backup_file \in NonDirectories
               /\ mappings[k].status \in {"MAPPED", "NOT_FOUND", "UNMAPPABLE"}

\* C4 witness: map_all() has run over a backup of a directory entry and a
\* file entry and produced the one mapping of the file.
C4_Witness ==
    /\ last_op = "map_all"
    /\ Len(backup_files) = 2
    /\ is_directory(mapper, backup_files[1])
    /\ Len(mappings) = 1
    /\ mappings[1].backup_file = 2

(***************************************************************************)
(* Claims about the android path prediction (Spec).                        *)
(***************************************************************************)
\* The entry a direct _map_backup_file call was made with.
DirectCall == mapper = "android" /\ last_op = "map_backup_file"
CalledWith == backup_files[last_map.file]

\* The atoms of a note.
Atoms(notes) == {notes[k] : k \in 1..Len(notes)}

\* The part of relative_path after its first segment, empty when there is
\* one segment only.
AfterFirstSegment(relative_path) ==
    IF \E k \in 1..Len(relative_path) : relative_path[k] = "/"
    THEN LET k == CHOOSE k \in 1..Len(relative_path) :
                      /\ relative_path[k] = "/"
                      /\ \A j \in 1..(k - 1) : relative_path[j] # "/"
         IN  SubSeq(relative_path, k + 1, Len(relative_path))
    ELSE <<>>

\* base, or base/rest when rest is not empty
Below(base, rest) == IF rest = <<>> THEN base ELSE base \o <<"/">> \o rest

\* C5: in the android mapper, every non-directory backup entry whose token
\* is _manifest or k appears in the map_all() result with status UNMAPPABLE,
\* no filesystem path and notes saying the token has no filesystem
\* equivalent, whatever its domain; a direct prediction for such an entry
\* gives no path either.
C5_UnmappableTokensFlagged ==
    /\ (mapper = "android" /\ calls >= 1) =>
           \A i \in NonDirectories :
               backup_files[i].token \in {<<"_manifest">>, <<"k">>} =>
                   \E k \in 1..Len(mappings) :
                       /\ mappings[k].backup_file = i
                       /\ mappings[k].status = "UNMAPPABLE"
                       /\ mappings[k].filesystem_path = None
                       /\ mappings[k].filesystem_file = NoFile
                       /\ "' has no filesystem equivalent"
                              \in Atoms(mappings[k].notes)
    /\ (DirectCall /\ CalledWith.token \in {<<"_manifest">>, <<"k">>}) =>
           /\ last_map.path = None
           /\ "' has no filesystem equivalent" \in Atoms(last_map.notes)

\* C5 witness: map_all() has flagged a _manifest file of a shared storage
\* domain as UNMAPPABLE.
C5_Witness ==
    /\ mapper = "android"
    /\ last_op = "map_all"
    /\ Len(backup_files) = 1
    /\ backup_files[1].domain = <<"shared", "/", "0">>
    /\ backup_files[1].token = <<"_manifest">>
    /\ Len(mappings) = 1
    /\ mappings[1].status = "UNMAPPABLE"

\* The tokens of the template table other than a.
C6_Tokens ==
    {<<"r">>, <<"f">>, <<"db">>, <<"sp">>, <<"c">>, <<"nb">>, <<"ef">>,
     <<"obb">>, <<"d_r">>, <<"d_f">>, <<"d_db">>, <<"d_sp">>, <<"d_c">>,
     <<"d_nb">>}

\* The directory of a token for a package: its template with {package}
\* replaced and without the trailing slash.
C6_Directory(token, package) ==
    LET ce == <<"/", "data", "/", "data", "/">> \o package
        de == <<"/", "data", "/", "user_de", "/", "0", "/">> \o package
        ext == <<"/", "storage", "/", "emulated", "/", "0", "/", "Android", "/">>
    IN  CASE token = <<"r">> -> ce
          [] token = <<"f">> -> ce \o <<"/", "files">>
          [] token = <<"db">> -> ce \o <<"/", "databases">>
          [] token = <<"sp">> -> ce \o <<"/", "shared_prefs">>
          [] token = <<"c">> -> ce \o <<"/", "cache">>
          [] token = <<"nb">> -> ce \o <<"/", "no_backup">>
          [] token = <<"ef">> ->
                 ext \o <<"data", "/">> \o package \o <<"/", "files">>
          [] token = <<"obb">> -> ext \o <<"obb", "/">> \o package
          [] token = <<"d_r">> -> de
          [] token = <<"d_f">> -> de \o <<"/", "files">>
          [] token = <<"d_db">> -> de \o <<"/", "databases">>
          [] token = <<"d_sp">> -> de \o <<"/", "shared_prefs">>
          [] token = <<"d_c">> -> de \o <<"/", "cache">>
          [] token = <<"d_nb">> -> de \o <<"/", "no_backup">>

\* A domain that is a package name: neither shared storage nor Live Data.
IsPackageName(domain) ==
    /\ ~(\E k \in 1..Len(domain) : domain[k] = "/")
    /\ domain # <<"Live Data">>

C6_Expected(bf) ==
    Below(C6_Directory(bf.token, bf.domain), AfterFirstSegment(bf.relative_path))

\* C6: in the android mapper, for every entry whose token is a template
\* token other than a and whose domain is a package name, the predicted path
\* is the token's template with {package} replaced by the domain, followed by
\* '/' and the part of relative_path after the first segment, and the
\* template directory without a trailing slash when that part is empty.
C6_TemplatePrediction ==
    /\ (DirectCall /\ CalledWith.token \in C6_Tokens
            /\ IsPackageName(CalledWith.domain))
           => last_map.path = C6_Expected(CalledWith)
    /\ (mapper = "android" /\ calls >= 1) =>
           \A k \in 1..Len(mappings) :
               LET bf == backup_files[mappings[k].backup_file]
               IN  (bf.token \in C6_Tokens /\ IsPackageName(bf.domain))
                       => mappings[k].filesystem_path = C6_Expected(bf)

\* C6 witness: a direct prediction for the entry d_db/x/y of pkgA.
C6_Witness ==
    /\ DirectCall
    /\ CalledWith.domain = <<"pkgA">>
    /\ CalledWith.token = <<"d_db">>
    /\ CalledWith.relative_path = <<"d_db", "/", "x", "/", "y">>
    /\ last_map.path = <<"/", "data", "/", "user_de", "/", "0", "/", "pkgA",
                         "/", "databases", "/", "x", "/", "y">>

\* The positions of the index keys that start with /data/app/<package>-.
C7_Indexed(package) ==
    {k \in 1..Len(file_index) :
         LET key == file_index[k].key
             prefix == <<"/", "data", "/", "app", "/">> \o package \o <<"-">>
         IN  /\ Len(key) >= Len(prefix)
             /\ SubSeq(key, 1, Len(prefix)) = prefix}

\* The first path segment after /data/app/ of an index key.
C7_Segment(key) ==
    LET rest == SubSeq(key, 6, Len(key))
    IN  IF \E k \in 1..Len(rest) : rest[k] = "/"
        THEN SubSeq(rest, 1,
                    (CHOOSE k \in 1..Len(rest) :
                         /\ rest[k] = "/"
                         /\ \A j \in 1..(k - 1) : rest[j] # "/") - 1)
        ELSE rest

\* C7 (as the spec states it): in the android mapper, for an entry with
\* token a of package P, if the filesystem index contains a path starting
\* with /data/app/P- the predicted path is /data/app/<D>/<remainder> with D
\* the first segment after /data/app/ of such a path; if no such path is
\* indexed the predicted path is /data/app/P/<remainder> and the notes
\* mention the fallback.
C7_ApkDirFollowsIndex ==
    (DirectCall /\ CalledWith.token = <<"a">> /\ IsPackageName(CalledWith.domain))
        => LET rest == AfterFirstSegment(CalledWith.relative_path)
               app == <<"/", "data", "/", "app", "/">>
           IN  IF C7_Indexed(CalledWith.domain) # {}
               THEN \E k \in C7_Indexed(CalledWith.domain) :
                        last_map.path
                            = Below(app \o C7_Segment(file_index[k].key), rest)
               ELSE /\ last_map.path = Below(app \o CalledWith.domain, rest)
                    /\ "APK dir suffix not found (using package name as fallback)"
                           \in Atoms(last_map.notes)

\* C8 (as the spec states it): in the android mapper, _map_backup_file
\* returns no filesystem path for an entry of the 'Live Data' domain, and
\* the returned notes name 'Live Data'.
C8_LiveDataUnmappable ==
    (DirectCall /\ CalledWith.domain = <<"Live Data">>)
        => /\ last_map.path = None
           /\ "Live Data" \in Atoms(last_map.notes)

\* /data/media/<n>, with /<relative_path> when relative_path is not empty,
\* for an entry of domain shared/<n>
C9_Expected(bf) ==
    Below(<<"/", "data", "/", "media", "/", bf.domain[3]>>, bf.relative_path)

IsSharedDomain(domain) ==
    Len(domain) = 3 /\ domain[1] = "shared" /\ domain[2] = "/"

\* C9: in the android mapper, for every entry with domain shared/<n> whose
\* token is not _manifest or k, the predicted path is
\* /data/media/<n>/<relative_path> when relative_path is not empty and
\* /data/media/<n> when it is empty.
C9_SharedPrediction ==
    /\ (DirectCall /\ IsSharedDomain(CalledWith.domain)
            /\ CalledWith.token \notin {<<"_manifest">>, <<"k">>})
           => last_map.path = C9_Expected(CalledWith)
    /\ (mapper = "android" /\ calls >= 1) =>
           \A k \in 1..Len(mappings) :
               LET bf == backup_files[mappings[k].backup_file]
               IN  (IsSharedDomain(bf.domain)
                        /\ bf.token \notin {<<"_manifest">>, <<"k">>})
                       => mappings[k].filesystem_path = C9_Expected(bf)

\* C9 witness: a direct prediction for the file x of shared/1.
C9_Witness ==
    /\ DirectCall
    /\ CalledWith.domain = <<"shared", "/", "1">>
    /\ CalledWith.token = <<>>
    /\ CalledWith.relative_path = <<"x">>
    /\ last_map.path = <<"/", "data", "/", "media", "/", "1", "/", "x">>

(***************************************************************************)
(* Claims about the tar path grammar (SpecTar).                            *)
(***************************************************************************)
\* C10: for every member name m that does not begin with '/',
\* parse_tar_path('./' + m) returns the same (domain, token, relative_path)
\* triple as parse_tar_path(m).
C10_DotSlashPrefixIgnored ==
    (last_op = "parse_tar_path" /\ ~StartsWith(member_name, <<"/">>)) =>
        parsed.dotted = parsed.plain

\* C10 witness: a name below apps/ has been parsed both ways into a package
\* and a token.
C10_Witness ==
    /\ last_op = "parse_tar_path"
    /\ StartsWith(member_name, <<"apps", "/">>)
    /\ parsed.plain.domain = <<"pkgA">>
    /\ parsed.plain.token = <<"db">>
    /\ parsed.dotted = parsed.plain

\* The name without one leading './' or '/'.
WithoutLeadingDotSlash(name) ==
    IF Len(name) >= 2 /\ name[1] = "." /\ name[2] = "/"
    THEN SubSeq(name, 3, Len(name))
    ELSE IF Len(name) >= 1 /\ name[1] = "/" THEN SubSeq(name, 2, Len(name))
    ELSE name

\* The '/'-separated segments of a name.
Segments(name) == Split(name, "/")

\* Every segment holds something other than dots: no empty segment, no '.'
\* and no '..' segment.
PlainSegments(name) ==
    \A i \in 1..Len(Segments(name)) :
        \E k \in 1..Len(Segments(name)[i]) : Segments(name)[i][k] # "."

\* C11 (as the spec states it): parse_tar_path removes only a leading './'
\* or '/' from the member name; for a name whose first segment after that
\* removal is neither 'apps' nor 'shared', the domain is exactly that first
\* segment, the relative_path is exactly the remaining segments joined by
\* '/', and the token is empty.
C11_OnlyPrefixRemoved ==
    LET name == WithoutLeadingDotSlash(member_name)
        segs == Segments(name)
    IN  (last_op = "parse_tar_path" /\ PlainSegments(name)
             /\ segs[1] \notin {<<"apps">>, <<"shared">>})
            => /\ parsed.plain.domain = segs[1]
               /\ parsed.plain.token = <<>>
               /\ parsed.plain.relative_path = Join(Tail(segs), "/")

\* C12 (as the spec states it): for every member name apps/<pkg>/<t>/<rest...>,
\* whether or not t is a known token, parse_tar_path returns domain = pkg,
\* token = t and relative_path = t joined with the rest by '/'; for
\* apps/<pkg> with no further segment it returns (pkg, '', '').
C12_TokenPassedThrough ==
    LET segs == Segments(member_name)
    IN  (last_op = "parse_tar_path" /\ PlainSegments(member_name)
             /\ segs[1] = <<"apps">> /\ Len(segs) >= 2)
            => IF Len(segs) >= 3
               THEN /\ parsed.plain.domain = segs[2]
                    /\ parsed.plain.token = segs[3]
                    /\ parsed.plain.relative_path
                           = Join(SubSeq(segs, 3, Len(segs)), "/")
               ELSE /\ parsed.plain.domain = segs[2]
                    /\ parsed.plain.token = <<>>
                    /\ parsed.plain.relative_path = <<>>

(***************************************************************************)
(* Claims about is_directory (SpecDir).                                    *)
(***************************************************************************)
\* C13 (as the spec states it): for every AndroidBackupFile with mode 0 and
\* flags == 2, is_directory is true; for every AndroidBackupFile with mode 0,
\* flags 0 and a non-empty file_id, is_directory is false.
C13_AndroidZeroModeFollowsFlags ==
    (last_op = "is_directory" /\ entry.kind = "android" /\ entry.mode = 0)
        => /\ entry.flags = 2 => entry_is_directory
           /\ (entry.flags = 0 /\ entry.file_id # <<>>) => ~entry_is_directory

\* The file-type bits of a mode, as the number mode & 0o170000 divided by
\* 0o10000: 0 for none, 4 for a directory.
TypeNibble(mode) == (mode \div 4096) % 16

\* C14 (as the spec states it): for an iOS BackupFile, when the mode carries
\* file-type bits is_directory is decided by the mode bits alone (true only
\* for type 0o040000); flags == 2 decides only when the mode carries no
\* file-type bits; the fallback rule (empty file_id, size 0, mode 0) decides
\* only when neither mode nor flags gives a signal.
C14_IosSignalPriority ==
    (last_op = "is_directory" /\ entry.kind = "ios")
        => /\ TypeNibble(entry.mode) # 0
                  => (entry_is_directory <=> TypeNibble(entry.mode) = 4)
           /\ (TypeNibble(entry.mode) = 0 /\ entry.flags = 2)
                  => entry_is_directory
           /\ (TypeNibble(entry.mode) = 0 /\ entry.flags = 0)
                  => (entry_is_directory <=>
                          (entry.file_id = <<>> /\ entry.file_size = 0
                               /\ entry.mode = 0))

(***************************************************************************)
(* Claims about the ALEX and Magnet decoders, checked under SpecArchive.   *)
(***************************************************************************)
\* The members of the primary tar from which the decoder builds an entry:
\* ALEX passes over members that are neither directories nor regular files.
YieldsEntry(member) ==
    archive.kind = "alex" => member.type \in {"dir", "file"}

IsPrimaryEntry(bf) == bf.file_id[1] \notin {"zip:", "sdcard_tar:"}

IsSdcardEntryOfResult(bf) ==
    bf.file_id[1] \in {"zip:", "sdcard_tar:"} /\ bf.domain = SHARED_DOMAIN

\* The sdcard entries of the archive, in the order the decoder visits them,
\* as the full domain paths they would get.
SdcardCandidates ==
    IF archive.kind = "alex"
    THEN [i \in 1..Len(AlexSdcardNames(archive.namelist)) |->
            AlexDomainPath(AlexRel(AlexSdcardNames(archive.namelist)[i]))]
    ELSE [i \in 1..Len(archive.sdcard_tar) |->
            MagnetDomainPath(MagnetRel(LStrip(archive.sdcard_tar[i].name,
                                              {".", "/"})))]

\* C15: after an ALEX or Magnet archive is decoded, every entry built from
\* the primary tar is in the result, in tar order; an sdcard entry of the
\* result is a shared/0 entry whose full domain path differs from that of
\* every entry before it, so that no sdcard entry shares its full domain
\* path with a primary entry or with another sdcard entry; and each sdcard
\* candidate's full domain path is the path of some entry of the result.
C15_SdcardEntriesDeduplicated ==
    (last_op = "parse_archive" /\ archive.kind \in {"alex", "magnet"}) =>
        /\ LET kept == SelectSeq(decoded_files, IsPrimaryEntry)
               members == SelectSeq(archive.primary, YieldsEntry)
           IN  /\ Len(kept) = Len(members)
               /\ \A i \in 1..Len(kept) : kept[i].file_id = members[i].name
        /\ \A j \in 1..Len(decoded_files) :
              IsSdcardEntryOfResult(decoded_files[j]) =>
                  \A i \in 1..Len(decoded_files) :
                      i # j => full_domain_path(decoded_files[i])
                                  # full_domain_path(decoded_files[j])
        /\ \A k \in 1..Len(SdcardCandidates) :
              \E i \in 1..Len(decoded_files) :
                  full_domain_path(decoded_files[i]) = SdcardCandidates[k]

\* An archive of which one sdcard candidate was added and another one was
\* passed over because a primary entry already had its full domain path.
C15_Witness ==
    /\ last_op = "parse_archive"
    /\ Len(SdcardCandidates) = 2
    /\ Len(SelectSeq(decoded_files, IsSdcardEntryOfResult)) = 1
    /\ \E i \in 1..Len(decoded_files) :
          /\ IsPrimaryEntry(decoded_files[i])
          /\ full_domain_path(decoded_files[i]) \in
                {SdcardCandidates[1], SdcardCandidates[2]}

(***************************************************************************)
(* Claims about encrypted backups, checked under SpecDecode.               *)
(***************************************************************************)
\* The .ab decoder has derived a key from a password with which the
\* checksum in the decrypted key blob differs from the recomputed one.
ChecksumDiffers ==
    /\ parser.kind = "ab"
    /\ tried # <<>>
    /\ DecryptedBlob(parser, tried[1]) = "mismatch"

\* C16: when the .ab decoder is given a password whose recomputed
\* master-key checksum differs from the one in the decrypted key blob, the
\* decode ends with the invalid-password error, the payload has not been
\* decrypted, no backup object is returned, exactly one password has been
\* tried, and from the moment the password is chosen the callback is not
\* invoked again and the password is not replaced.
C16_WrongPasswordEndsDecode ==
    /\ [](ChecksumDiffers =>
            /\ last_op = "parse"
            /\ outcome = INVALID_PASSWORD
            /\ ~payload_decrypted
            /\ returned_backup = NoBackup
            /\ tried = <<password>>)
    /\ [][(parser.kind = "ab" /\ last_op # "init") =>
            /\ callback_calls' = callback_calls
            /\ password' = password]_vars

\* A decode that asked the callback, got a wrong password and ended with
\* the invalid-password error.
C16_Witness ==
    /\ ChecksumDiffers
    /\ last_op = "parse"
    /\ callback_calls = 1
    /\ password = parser.callback.result
    /\ outcome = INVALID_PASSWORD

\* The constructor was given a password.
Supplied == Truthy(parser.password)

\* The password.txt nearest to the backup exists and holds a password.
FileHoldsPassword ==
    /\ parser.password_files[1] \notin {ABSENT, UNREADABLE}
    /\ StripWs(parser.password_files[1]) # <<>>

C18_IosNormalizedPathIsPrivate ==
    (platform = "ios" /\ IndexIsBuilt) =>
        \A i \in 1..Len(files) :
            /\ normalized_path(files[i]) \in DictKeys(file_index)
            /\ StartsWith(normalized_path(files[i]), P_PRIVATE)

\* The keys find_file may answer from: path itself, on iOS path behind
\* '/private' (with a '/' between when path has none in front), on android
\* path behind a '/'.
ExactForms(plat, path) ==
    {path} \cup
    IF plat = "ios"
    THEN {IF StartsWith(path, <<"/">>) THEN <<"/", "private">> \o path
          ELSE P_PRIVATE \o path}
    ELSE {<<"/">> \o path}

\* C19: what a find_file(path) call returned is, when it is an entry, the
\* entry the index holds under path or under one of its exact forms; when
\* the index holds path itself it is the entry under path; and when the
\* index holds none of the forms the call returned nothing, even if keys of
\* the index begin with path or path begins with a key.
C19_FindFileExactFormsOnly ==
    last_op = "find_file" =>
        LET hits == {k \in ExactForms(platform, last_find.path) :
                        k \in DictKeys(file_index)}
        IN  /\ last_find.result # NoFile =>
                  \E k \in hits : DictGet(file_index, k) = last_find.result
            /\ hits = {} => last_find.result = NoFile
            /\ last_find.path \in hits =>
                  last_find.result = DictGet(file_index, last_find.path)

\* find_file was asked for a directory under which the index has keys and
\* that is not a key itself, and returned nothing.
C19_Witness ==
    /\ last_op = "find_file"
    /\ last_find.result = NoFile
    /\ \E i \in 1..Len(file_index) :
          /\ StartsWith(file_index[i].key, last_find.path)
          /\ file_index[i].key # last_find.path

IsLookup(op) == op \in {"find_file", "find_files_in_directory"}

\* C20 as claimed: a find_file or find_files_in_directory call leaves the
\* index as it was before the call.
C20_LookupLeavesIndex ==
    [][IsLookup(last_op') => file_index' = file_index]_vars

\* C20 amended: a find_file or find_files_in_directory call leaves an index
\* that holds keys as it was before the call, and replaces an index without
\* keys by the one build_index() builds from the listing.
C20_LookupBuildsEmptyIndexOnly ==
    [][IsLookup(last_op') =>
          file_index' = IF file_index = <<>>
                        THEN build_index(files, platform)
                        ELSE file_index]_vars

\* A lookup has answered from an index that holds keys.
C20_Witness ==
    /\ last_op = "find_files_in_directory"
    /\ file_index # <<>>
    /\ last_find.results # <<>>

(***************************************************************************)
(* Claims about ParsingLog, checked under SpecLog.                         *)
(***************************************************************************)
WithStatus(status) ==
    Cardinality({i \in 1..Len(parsing_log.entries) :
                    parsing_log.entries[i].status = status})

Counters(log) ==
    <<log.files_added, log.directories_added, log.skipped_no_content,
      log.errors>>

\* C21: after any calls of add_entry and update_actual_size, files_added,
\* directories_added, skipped_no_content and errors are the numbers of
\* entries of the log with status added_file, added_directory,
\* skipped_no_content and error; an add_entry call makes the log one entry
\* longer and leaves every earlier entry as it was; an update_actual_size
\* call leaves the four counters and the number of entries as they were.
C21_StatusCountersMatchEntries ==
    /\ [](/\ parsing_log.files_added = WithStatus("added_file")
          /\ parsing_log.directories_added = WithStatus("added_directory")
          /\ parsing_log.skipped_no_content = WithStatus("skipped_no_content")
          /\ parsing_log.errors = WithStatus("error"))
    /\ [][/\ last_op' = "add_entry" =>
                /\ Len(parsing_log'.entries) = Len(parsing_log.entries) + 1
                /\ SubSeq(parsing_log'.entries, 1, Len(parsing_log.entries))
                      = parsing_log.entries
          /\ last_op' = "update_actual_size" =>
                /\ Counters(parsing_log') = Counters(parsing_log)
                /\ Len(parsing_log'.entries) = Len(parsing_log.entries)]_vars

\* A log with an entry of a status that no counter counts, an entry that
\* is counted, and an update made after them.
C21_Witness ==
    /\ last_op = "update_actual_size"
    /\ WithStatus("size_mismatch") = 1
    /\ WithStatus("added_file") = 1
    /\ parsing_log.files_added = 1
    /\ \E i \in 1..Len(parsing_log.entries) :
          parsing_log.entries[i].actual_size # NoSize

\* C27: after any calls of add_entry and update_actual_size,
\* size_mismatches is the number of entries whose actual_size is set and
\* differs from their manifest_size, and manifest_size_zero the number of
\* those whose manifest_size is 0 and whose actual_size is above 0.
C27_SizeCountersMatchEntries ==
    /\ parsing_log.size_mismatches =
          Cardinality({i \in 1..Len(parsing_log.entries) :
              /\ parsing_log.entries[i].actual_size # NoSize
              /\ parsing_log.entries[i].actual_size
                    # parsing_log.entries[i].manifest_size})
    /\ parsing_log.manifest_size_zero =
          Cardinality({i \in 1..Len(parsing_log.entries) :
              /\ parsing_log.entries[i].actual_size # NoSize
              /\ parsing_log.entries[i].manifest_size = 0
              /\ parsing_log.entries[i].actual_size > 0})

(***************************************************************************)
(* Claims about the container mappings, checked under SpecLoad.            *)
(***************************************************************************)
MappingNames == {"app", "group", "plugin", "system", "system_group", "combined"}

\* The positions of the metadata plists that assign bundle_id a GUID in
\* the mapping t, and of the database rows that offer one for it.
PlistsFor(t, bundle_id) ==
    {i \in 1..Len(container_sources.plists) :
        LET pl == container_sources.plists[i]
        IN  /\ pl.has_content
            /\ bundle_id # <<>>
            /\ pl.bundle_id = bundle_id
            /\ pl.guid # None
            /\ t \in {pl.container_type, "combined"}}

RowsFor(t, bundle_id) ==
    {i \in 1..Len(container_sources.rows) :
        LET row == container_sources.rows[i]
        IN  /\ bundle_id # <<>>
            /\ row.bundle_id = bundle_id
            /\ row.guid # None
            /\ t \in {row.path_type, "combined"}}

Last(S) == CHOOSE i \in S : \A j \in S : j <= i
First(S) == CHOOSE i \in S : \A j \in S : i <= j

\* C22: after load() of an iOS listing, every mapping holds, for a bundle
\* id that metadata plists assigned in it, the GUID of the last such
\* plist, whatever the database rows say; for a bundle id that no plist
\* assigned in it, the GUID of the first database row that offers one for
\* that mapping; and no other bundle ids.
C22_PlistsBeforeDatabase ==
    (last_op = "load" /\ container_sources.platform = "ios") =>
        \A t \in MappingNames, b \in {BUNDLE_A, BUNDLE_B, <<>>} :
            IF PlistsFor(t, b) # {}
            THEN /\ b \in DOMAIN loaded_mappings[t]
                 /\ loaded_mappings[t][b] =
                       container_sources.plists[Last(PlistsFor(t, b))].guid
            ELSE IF RowsFor(t, b) # {}
            THEN /\ b \in DOMAIN loaded_mappings[t]
                 /\ loaded_mappings[t][b] =
                       Upper(container_sources.rows[First(RowsFor(t, b))].guid)
            ELSE b \notin DOMAIN loaded_mappings[t]

\* A listing whose plist and database disagree on the app container of
\* bundleA, and whose database alone knows the app container of bundleB.
C22_Witness ==
    /\ last_op = "load"
    /\ container_sources.platform = "ios"
    /\ PlistsFor("app", BUNDLE_A) # {}
    /\ RowsFor("app", BUNDLE_A) # {}
    /\ loaded_mappings.app[BUNDLE_A] = <<"G1">>
    /\ container_sources.rows[First(RowsFor("app", BUNDLE_A))].guid = <<"g2">>

(***************************************************************************)
(* Claims about the iOS container prediction (Spec).                       *)
(***************************************************************************)
\* The entry a direct _map_domain_path call was made with.
IosDirectCall == mapper = "ios" /\ last_op = "map_backup_file"

\* The base domain and the identifier of a domain: the text before and
\* after its first hyphen.
C23_Hyphen(domain) ==
    CHOOSE k \in 1..Len(domain) :
        domain[k] = "-" /\ \A j \in 1..(k - 1) : domain[j] # "-"
C23_BaseDomain(domain) == SubSeq(domain, 1, C23_Hyphen(domain) - 1)
C23_Identifier(domain) ==
    SubSeq(domain, C23_Hyphen(domain) + 1, Len(domain))

\* The typed mapping and the container base of each container domain.
C23_Typed(conts, base) ==
    IF base = <<"AppDomain">> THEN conts.app
    ELSE IF base = <<"AppDomainGroup">> THEN conts.group
    ELSE IF base = <<"AppDomainPlugin">> THEN conts.plugin
    ELSE IF base = <<"SysContainerDomain">> THEN conts.system
    ELSE conts.system_group

C23_Base(base) ==
    IF base = <<"AppDomain">>
    THEN <<"/", "private", "/", "var", "/", "mobile", "/", "Containers", "/",
           "Data", "/", "Application">>
    ELSE IF base = <<"AppDomainGroup">>
    THEN <<"/", "private", "/", "var", "/", "mobile", "/", "Containers", "/",
           "Shared", "/", "AppGroup">>
    ELSE IF base = <<"AppDomainPlugin">>
    THEN <<"/", "private", "/", "var", "/", "mobile", "/", "Containers", "/",
           "Data", "/", "PluginKitPlugin">>
    ELSE IF base = <<"SysContainerDomain">>
    THEN <<"/", "private", "/", "var", "/", "containers", "/", "Data", "/",
           "System">>
    ELSE <<"/", "private", "/", "var", "/", "containers", "/", "Shared", "/",
           "SystemGroup">>

C23_IsContainerDomain(domain) ==
    /\ \E k \in 1..Len(domain) : domain[k] = "-"
    /\ C23_BaseDomain(domain) \in
           {<<"AppDomain">>, <<"AppDomainGroup">>, <<"AppDomainPlugin">>,
            <<"SysContainerDomain">>, <<"SysSharedContainerDomain">>}
    /\ C23_Identifier(domain) # <<>>

\* The typed mapping records a GUID for the identifier.
C23_Hit(conts, domain) ==
    LET m == C23_Typed(conts, C23_BaseDomain(domain))
        identifier == C23_Identifier(domain)
    IN  identifier \in DOMAIN m

C23_Prediction(conts, bf, path, notes) ==
    LET base == C23_BaseDomain(bf.domain)
        identifier == C23_Identifier(bf.domain)
    IN  IF C23_Hit(conts, bf.domain)
        THEN /\ path = Below(C23_Base(base) \o <<"/">>
                                 \o C23_Typed(conts, base)[identifier],
                             bf.relative_path)
             /\ "Resolved via container mapping: " \in Atoms(notes)
        ELSE /\ path = Below(C23_Base(base) \o <<"/">> \o identifier,
                             bf.relative_path)
             /\ \/ "Using bundle ID as fallback (GUID not found): "
                       \in Atoms(notes)
                \/ "Using identifier as fallback (GUID not found): "
                       \in Atoms(notes)

\* C23: in the iOS mapper, for a container domain (AppDomain,
\* AppDomainGroup, AppDomainPlugin, SysContainerDomain,
\* SysSharedContainerDomain followed by a hyphen and an identifier, the
\* identifier being everything after the first hyphen) the GUID is looked
\* up only in the mapping of the domain's own type: when it is there the
\* path is the type's container base, the GUID and the relative path joined
\* by '/', and otherwise the identifier stands in place of the GUID and the
\* notes say a fallback was used; a GUID recorded for the same identifier
\* under another type is never used.
C23_TypedGuidLookup ==
    /\ (IosDirectCall /\ C23_IsContainerDomain(CalledWith.domain)) =>
           C23_Prediction(containers, CalledWith, last_map.path,
                          last_map.notes)
    /\ (mapper = "ios" /\ calls >= 1) =>
           \A k \in 1..Len(mappings) :
               LET bf == backup_files[mappings[k].backup_file]
               IN  C23_IsContainerDomain(bf.domain) =>
                       C23_Prediction(containers, bf,
                                      mappings[k].filesystem_path,
                                      mappings[k].notes)

\* C23 witness: an AppDomainGroup entry whose identifier has a GUID under
\* the application type only is predicted under the identifier, with the
\* fallback note.
C23_Witness ==
    /\ IosDirectCall
    /\ CalledWith.domain = <<"AppDomainGroup", "-", "bundleA">>
    /\ CalledWith.relative_path = <<"x">>
    /\ BUNDLE_A \in DOMAIN containers.app
    /\ BUNDLE_A \notin DOMAIN containers.group
    /\ last_map.path = <<"/", "private", "/", "var", "/", "mobile", "/",
                         "Containers", "/", "Shared", "/", "AppGroup", "/",
                         "bundleA", "/", "x">>
    /\ "Using bundle ID as fallback (GUID not found): "
           \in Atoms(last_map.notes)

(***************************************************************************)
(* Claims about the statistics of map_all (Spec).                          *)
(***************************************************************************)
\* The non-directory entries of the filesystem listing.
FsNonDirectories == {i \in 1..Len(files) : ~files[i].is_directory}

\* The fraction is the number p.
FractionIs(fraction, p, q) == fraction.num * q = p * fraction.den

C24_WitnessNoFiles ==
    /\ calls = 1
    /\ Len(backup_files) > 0
    /\ statistics.total_filesystem_files = 0
    /\ FractionIs(statistics.backup_coverage_percent, 0, 1)

(***************************************************************************)
(* Claims about the mode of decoded directory entries (SpecArchive).       *)
(***************************************************************************)
\* AndroidBackupFile.is_directory of a decoded entry
EntryIsDirectory(e) == FileTypeBits(e.mode) = S_IFDIR

\* C25: every entry an Android-family decoder (.ab, ALEX, Magnet) creates
\* for a tar directory member has the directory type bit 0o040000 set in
\* its mode, so every decoded entry with flags = 2 has is_directory true.
C25_DirectoryEntriesHaveTypeBit ==
    last_op = "parse_archive" =>
        \A k \in 1..Len(decoded_files) :
            decoded_files[k].flags = 2 => EntryIsDirectory(decoded_files[k])

(***************************************************************************)
(* Claims about the checksum key of an encrypted .ab (SpecKey).            *)
(***************************************************************************)
\* The number of bytes of 0x80 and above.
HighBytes(key) == Cardinality({k \in 1..Len(key) : key[k] >= 128})

\* The position in the output of the first byte written for input byte k.
OutputPosition(key, k) == k + 2 * HighBytes(SubSeq(key, 1, k - 1))

\* C26: _convert_to_utf8_bytes copies each input byte below 0x80 unchanged
\* and replaces each byte b of 0x80 and above by the three bytes
\* 0xEF | (b >> 12), 0xBC | ((b >> 6) & 0x3F), 0x80 | (b & 0x3F), which for a
\* byte are 0xEF, 0xBE or 0xBF, and 0x80 + b mod 64, so that the output has
\* len(input) + 2 * (number of bytes >= 0x80) bytes; for a format_version
\* below 2 the raw key is used unconverted.
C26_Utf8KeyConversion ==
    LET key == master_key.key
        converts == \/ last_op = "convert_to_utf8_bytes"
                    \/ last_op = "checksum_key"
                           /\ master_key.format_version >= 2
    IN  /\ converts =>
              /\ Len(converted_key) = Len(key) + 2 * HighBytes(key)
              /\ \A k \in 1..Len(key) :
                     LET p == OutputPosition(key, k)
                         b == key[k]
                     IN  IF b < 128 THEN converted_key[p] = b
                         ELSE /\ converted_key[p] = 239
                              /\ converted_key[p + 1] = 188 + (b \div 64)
                              /\ converted_key[p + 2] = 128 + (b % 64)
        /\ (last_op = "checksum_key" /\ master_key.format_version < 2) =>
               converted_key = key

\* C26 witness: the key 41 C0 FF of a version 2 backup is converted to
\* 41 EF BF 80 EF BF BF.
C26_Witness ==
    /\ last_op = "checksum_key"
    /\ master_key.format_version = 2
    /\ master_key.key = <<65, 192, 255>>
    /\ converted_key = <<65, 239, 191, 128, 239, 191, 191>>

\* C26 witness of the raw key: a version 1 backup with a byte above 0x7F.
C26_WitnessRaw ==
    /\ last_op = "checksum_key"
    /\ master_key.format_version = 1
    /\ master_key.key = <<128>>
    /\ converted_key = <<128>>

(***************************************************************************)
(* Claims about extract_domain_from_path (SpecExtract).                    *)
(***************************************************************************)
\* The '/'-separated segments of the path, leading and trailing '/' apart.
PathParts == Split(Strip(path_arg.path, {"/"}), "/")

\* C28: extract_domain_from_path returns a (domain, relative_path) pair for
\* every path and platform without raising; the empty path gives ('', ''),
\* and a single-segment path /c, which matches no platform-specific rule,
\* gives (c, '').
C28_ExtractNeverRaises ==
    last_op = "extract_domain_from_path" =>
        /\ extracted.raised = "none"
        /\ path_arg.path = <<>> =>
               extracted.domain = <<>> /\ extracted.relative_path = <<>>
        /\ (Len(PathParts) = 1 /\ PathParts[1] \notin {<<>>, <<"sdcard">>}) =>
               /\ extracted.domain = PathParts[1]
               /\ extracted.relative_path = <<>>

\* The calls that raise are those on the one-segment path 'data' of an
\* android listing; every other call returns as C28 says.
C28_RaisesOnAndroidDataOnly ==
    last_op = "extract_domain_from_path" =>
        /\ extracted.raised # "none" <=>
               (path_arg.platform = "android" /\ PathParts = <<<<"data">>>>)
        /\ (extracted.raised = "none" /\ Len(PathParts) = 1
                /\ PathParts[1] \notin {<<>>, <<"sdcard">>}) =>
               /\ extracted.domain = PathParts[1]
               /\ extracted.relative_path = <<>>

\* C29: after map_all() on any of the three mappers, mapped_files +
\* not_found_files + unmappable_files equals total_backup_files and equals
\* len(mappings), len(get_unmapped_backup_files()) equals backup_only_files
\* and len(get_filesystem_files_not_in_backup()) equals
\* filesystem_only_files.
C29_CountersMatchMappings ==
    calls >= 1 =>
        /\ statistics.mapped_files + statistics.not_found_files
               + statistics.unmappable_files = statistics.total_backup_files
        /\ statistics.total_backup_files = Len(mappings)
        /\ Cardinality(get_unmapped_backup_files(mappings))
               = statistics.backup_only_files
        /\ Cardinality(get_filesystem_files_not_in_backup(mappings, files))
               = statistics.filesystem_only_files

\* The equalities of C29 hold after every call on the android and the
\* filesystem mapper and after the first call on the iOS mapper.
C29_HoldsWithoutAccumulation ==
    (calls = 1 \/ (calls >= 1 /\ mapper # "ios")) =>
        /\ statistics.mapped_files + statistics.not_found_files
               + statistics.unmappable_files = statistics.total_backup_files
        /\ statistics.total_backup_files = Len(mappings)
        /\ Cardinality(get_unmapped_backup_files(mappings))
               = statistics.backup_only_files
        /\ Cardinality(get_filesystem_files_not_in_backup(mappings, files))
               = statistics.filesystem_only_files

\* The mappings with status MAPPED.
MappedEntries == {k \in 1..Len(mappings) : mappings[k].status = "MAPPED"}

\* C30: after map_all() on any of the three mappers, mapped_files +
\* filesystem_only_files equals total_filesystem_files: every MAPPED entry
\* is matched to a non-directory filesystem entry of its own, so
\* mapped_files does not exceed total_filesystem_files and the coverage
\* percentage does not exceed 100.
C30_MappedPlusFsOnlyIsTotal ==
    calls = 1 =>
        /\ statistics.mapped_files + statistics.filesystem_only_files
               = statistics.total_filesystem_files
        /\ \A k \in MappedEntries :
               /\ ~files[mappings[k].filesystem_file].is_directory
               /\ \A j \in MappedEntries :
                      j # k => mappings[j].filesystem_file
                                   # mappings[k].filesystem_file
        /\ statistics.mapped_files <= statistics.total_filesystem_files
        /\ statistics.backup_coverage_percent.num
               <= 100 * statistics.backup_coverage_percent.den

====
